---- MODULE Spec2Model ----
(***************************************************************************)
(* A model of the governance agent (unneeks/go1): the Learning Memory,     *)
(* the reasoning log (EVENT_LOG) and the ten-step daily cycle of           *)
(* GovernanceAgent.run_daily_cycle.                                        *)
(*                                                                         *)
(* Numbers.  The program computes with floats; the model computes with     *)
(* fixed-point integers:                                                   *)
(*   - scores and thresholds in units of 1/1000,                           *)
(*   - attention weights in units of 1/10000           (AttUnit),          *)
(*     a product being truncated to that unit,                             *)
(*   - criticality in units of 1/100.                                      *)
(* A missing value (Python None) of a score is NoScore.                    *)
(***************************************************************************)
EXTENDS Integers, Sequences, FiniteSets, TLC

AttUnit == 100 * 100
NoScore == 0 - 1

Min(a, b) == IF a <= b THEN a ELSE b
Max(a, b) == IF a >= b THEN a ELSE b

\* Python dicts: a function with the keys present as its domain.
EmptyDict == [k \in {} |-> 0]
Get(d, k, default) == IF k \in DOMAIN d THEN d[k] ELSE default
Put(d, k, v) == [x \in (DOMAIN d) \cup {k} |-> IF x = k THEN v ELSE d[x]]
Pop(d, k) == [x \in (DOMAIN d) \ {k} |-> d[x]]

(***************************************************************************)
(* Bounds of the model.                                                    *)
(***************************************************************************)
\* Calls of the memory's interface in MemSpec, direct calls of the log in LogSpec
MaxCalls == 4
\* Calls of the memory's interface in AttSpec
MaxAttCalls == 8
\* Daily cycles
MaxDays == 2

(***************************************************************************)
(* learning_memory.py                                                      *)
(***************************************************************************)
RecTypes == <<"add_validation", "move_earlier", "adjust_threshold">>
RecTypeSet == {RecTypes[i] : i \in 1..Len(RecTypes)}

\* The weight's clamps (2.5 and 0.6) and the no-breach floor (1.0).
MaxAttention == 25000
MinAttention == 6000
\* OutcomeRecord.improved: delta > 0.001
ImprovedEps == 1

OutcomeRecord(day_, term_id, recommendation_type, score_before, score_after) ==
    [day |-> day_, term_id |-> term_id, recommendation_type |-> recommendation_type,
     score_before |-> score_before, score_after |-> score_after]

delta(record) == record.score_after - record.score_before

\* The scores are binary floating-point numbers and delta is their computed
\* difference.  For two scores b/1000 and (b+1)/1000 it is 0.0010000000000000009,
\* above the double 0.001, but for the b of FloatNotAbove, where it is equal to or
\* a little below the double 0.001; differences of 0.002 and more are above, those
\* of 0.000 and less are not.
improved(record) ==
    LET FloatNotAbove ==
            {0, 1, 2, 3, 4, 5, 6, 7, 8, 10, 12, 14, 17, 21, 25, 29, 35, 42, 50, 58, 70, 85,
             101, 117, 140, 171, 203, 234, 281, 343, 406, 468, 562, 687, 812, 937}
    IN  \/ delta(record) > ImprovedEps
        \/ delta(record) = ImprovedEps /\ record.score_before \notin FloatNotAbove

\* LearningMemory.__init__
LearningMemory ==
    [attention_weights |-> EmptyDict,
     rec_deltas        |-> EmptyDict,
     outcomes          |-> <<>>,
     breach_streaks    |-> EmptyDict,
     focus_history     |-> <<>>,
     pending           |-> EmptyDict]

\* attention_weights is a defaultdict(lambda: 1.0): reading a key inserts it.
attention_read(m, term_id) == Get(m.attention_weights, term_id, AttUnit)

record_focus(m, day_, term_id) ==
    [m EXCEPT !.focus_history = Append(@, <<day_, term_id>>)]

record_breach(m, term_id) ==
    LET streak == Get(m.breach_streaks, term_id, 0) + 1
        w      == attention_read(m, term_id)
    IN  [m EXCEPT !.breach_streaks = Put(@, term_id, streak),
                  !.attention_weights =
                      Put(@, term_id,
                          Min(MaxAttention, (w * (100 + 5 * Min(streak, 5))) \div 100))]

record_no_breach_unfloored(m, term_id) ==
    LET w == attention_read(m, term_id)
    IN  [m EXCEPT !.breach_streaks = Put(@, term_id, 0),
                  !.attention_weights = Put(@, term_id, (w * 90) \div 100)]

\* the weight is floored but not multiplied
record_no_breach_undecayed(m, term_id) ==
    LET w == attention_read(m, term_id)
    IN  [m EXCEPT !.breach_streaks = Put(@, term_id, 0),
                  !.attention_weights = Put(@, term_id, Max(AttUnit, w))]

record_no_breach(m, term_id) ==
    LET w == attention_read(m, term_id)
    IN  [m EXCEPT !.breach_streaks = Put(@, term_id, 0),
                  !.attention_weights = Put(@, term_id, Max(AttUnit, (w * 90) \div 100))]

\* an entry that is already pending is kept
record_recommendation_keeping(m, day_, term_id, recommendation_type, score_at_recommendation) ==
    IF <<term_id, recommendation_type>> \in DOMAIN m.pending THEN m
    ELSE [m EXCEPT !.pending = Put(@, <<term_id, recommendation_type>>,
                                   <<day_, score_at_recommendation>>)]

record_recommendation(m, day_, term_id, recommendation_type, score_at_recommendation) ==
    [m EXCEPT !.pending = Put(@, <<term_id, recommendation_type>>,
                              <<day_, score_at_recommendation>>)]

record_outcome_with(variant, m, day_, term_id, recommendation_type, score_after) ==
    LET same == {k \in DOMAIN m.pending : k[1] = term_id}
        key == IF variant = "by_term" /\ same # {}
               THEN CHOOSE k \in same : k = <<term_id, recommendation_type>>
                                         \/ <<term_id, recommendation_type>> \notin same
               ELSE <<term_id, recommendation_type>>
    IN  IF key \notin DOMAIN m.pending
        THEN [mem |-> m, ret |-> <<>>]
        ELSE LET score_before == m.pending[key][2]
                 record == OutcomeRecord(day_, term_id, key[2], score_before, score_after)
                 w == attention_read(m, term_id)
                 neww == IF improved(record)
                         THEN IF variant = "unclamped" THEN (w * 85) \div 100
                              ELSE Max(MinAttention, (w * 85) \div 100)
                         ELSE Min(MaxAttention, (w * 110) \div 100)
             IN  [mem |-> [m EXCEPT
                             !.pending = IF variant = "keep_pending" THEN @ ELSE Pop(@, key),
                             !.outcomes = Append(@, record),
                             !.rec_deltas = Put(@, key[2],
                                 Append(Get(@, key[2], <<>>), delta(record))),
                             !.attention_weights = Put(@, term_id, neww)],
                  ret |-> <<record>>]

\* the weight is not held at 0.6
record_outcome_unclamped(m, day_, term_id, recommendation_type, score_after) ==
    record_outcome_with("unclamped", m, day_, term_id, recommendation_type, score_after)
\* a pending entry of the concept with another type serves as well
record_outcome_by_term(m, day_, term_id, recommendation_type, score_after) ==
    record_outcome_with("by_term", m, day_, term_id, recommendation_type, score_after)
\* the pending entry stays
record_outcome_keep_pending(m, day_, term_id, recommendation_type, score_after) ==
    record_outcome_with("keep_pending", m, day_, term_id, recommendation_type, score_after)

\* the delta of the record is not added to the deltas of its type
record_outcome_untallied(m, day_, term_id, recommendation_type, score_after) ==
    LET key == <<term_id, recommendation_type>>
    IN  IF key \notin DOMAIN m.pending
        THEN [mem |-> m, ret |-> <<>>]
        ELSE LET score_before == m.pending[key][2]
                 record == OutcomeRecord(day_, term_id, recommendation_type,
                                         score_before, score_after)
                 w == attention_read(m, term_id)
                 neww == IF improved(record)
                         THEN Max(MinAttention, (w * 85) \div 100)
                         ELSE Min(MaxAttention, (w * 110) \div 100)
             IN  [mem |-> [m EXCEPT
                             !.pending = Pop(@, key),
                             !.outcomes = Append(@, record),
                             !.attention_weights = Put(@, term_id, neww)],
                  ret |-> <<record>>]

\* Returns the new memory and what the call returns: <<>> for None, <<record>> otherwise.
record_outcome(m, day_, term_id, recommendation_type, score_after) ==
    LET key == <<term_id, recommendation_type>>
    IN  IF key \notin DOMAIN m.pending
        THEN [mem |-> m, ret |-> <<>>]
        ELSE LET score_before == m.pending[key][2]
                 record == OutcomeRecord(day_, term_id, recommendation_type,
                                         score_before, score_after)
                 w == attention_read(m, term_id)
                 neww == IF improved(record)
                         THEN Max(MinAttention, (w * 85) \div 100)
                         ELSE Min(MaxAttention, (w * 110) \div 100)
             IN  [mem |-> [m EXCEPT
                             !.pending = Pop(@, key),
                             !.outcomes = Append(@, record),
                             !.rec_deltas = Put(@, recommendation_type,
                                 Append(Get(@, recommendation_type, <<>>), delta(record))),
                             !.attention_weights = Put(@, term_id, neww)],
                  ret |-> <<record>>]

\* get_attention_weight: the read inserts the default for an unseen key.
get_attention_weight(m, term_id) ==
    [mem |-> [m EXCEPT !.attention_weights = Put(@, term_id, attention_read(m, term_id))],
     ret |-> attention_read(m, term_id)]

RECURSIVE SumSeq(_)
SumSeq(s) == IF s = <<>> THEN 0 ELSE s[1] + SumSeq(Tail(s))

\* get_effectiveness: the mean of the deltas as a fraction <<sum, count>>, 0/1 if none.
get_effectiveness(m, recommendation_type) ==
    LET deltas == Get(m.rec_deltas, recommendation_type, <<>>)
    IN  IF deltas = <<>> THEN <<0, 1>> ELSE <<SumSeq(deltas), Len(deltas)>>

\* a/b < c/d for positive b, d
FracLess(x, y) == x[1] * y[2] < y[1] * x[2]

\* max(types, key=...): the first of the maximal ones in list order.
RECURSIVE ArgMaxFrom(_, _, _, _)
ArgMaxFrom(m, types, i, best) ==
    IF i > Len(types) THEN best
    ELSE ArgMaxFrom(m, types, i + 1,
                    IF FracLess(get_effectiveness(m, best), get_effectiveness(m, types[i]))
                    THEN types[i] ELSE best)

\* a maximum that keeps the last of the maximal types
preferred_recommendation_type_last(m) ==
    LET maximal == SelectSeq(RecTypes, LAMBDA ty :
                       \A i \in 1..Len(RecTypes) :
                           ~FracLess(get_effectiveness(m, ty), get_effectiveness(m, RecTypes[i])))
    IN  maximal[Len(maximal)]

\* a maximum that takes move_earlier as soon as add_validation is not better
preferred_recommendation_type_eager(m) ==
    IF ~FracLess(get_effectiveness(m, "move_earlier"), get_effectiveness(m, "add_validation"))
    THEN "move_earlier" ELSE ArgMaxFrom(m, RecTypes, 2, RecTypes[1])

preferred_recommendation_type(m) == ArgMaxFrom(m, RecTypes, 2, RecTypes[1])

\* summary: the attention weights as a plain dict, the mean delta of every type
\* that has one, the number of outcomes, the last five foci, the preferred type
summary(m) ==
    [attention_weights |-> m.attention_weights,
     effectiveness |-> [ty \in {t \in DOMAIN m.rec_deltas : m.rec_deltas[t] # <<>>} |->
                           get_effectiveness(m, ty)],
     outcomes_recorded |-> Len(m.outcomes),
     focus_history_last5 |-> SubSeq(m.focus_history, Max(1, Len(m.focus_history) - 4),
                                    Len(m.focus_history)),
     preferred_recommendation |-> preferred_recommendation_type(m)]

(***************************************************************************)
(* Sequences.                                                              *)
(***************************************************************************)
SeqToSet(s) == {s[i] : i \in 1..Len(s)}

RECURSIVE Flatten(_)
Flatten(ss) == IF ss = <<>> THEN <<>> ELSE ss[1] \o Flatten(Tail(ss))

\* The orders in which a Python set with the elements S may be iterated.
Orderings(S) ==
    {s \in [1..Cardinality(S) -> S] : \A i, j \in 1..Cardinality(S) : i # j => s[i] # s[j]}

(***************************************************************************)
(* config.py                                                               *)
(***************************************************************************)
TREND_WINDOW_DAYS == 5
\* MIN_TREND_FACTOR = 0.5 and MAX_TREND_FACTOR = 3.0, in units of 1/1000
MIN_TREND_FACTOR == 500
MAX_TREND_FACTOR == 3000

(***************************************************************************)
(* database.py / mock_data.py: the reference tables of the store.  The     *)
(* rows follow mock_data.py, cut down, with a concept that has no element  *)
(* (BT003) and an element mapped to a model that has no SQL body           *)
(* (stg_customer), and a concept (BT004) whose one element is mapped to    *)
(* three models with a SQL body, and a concept of a low criticality (BT009, *)
(* 0.04) whose one element is mapped to no model.  BUSINESS_TERMS and      *)
(* DQ_SCORES are state (terms, scores).                                    *)
(***************************************************************************)
Term(term_id) ==
    LET Criticality ==
            [t \in {"BT001", "BT002", "BT003", "BT004", "BT005", "BT006", "BT007", "BT008",
                    "BT009"} |->
                CASE t = "BT001" -> 90 [] t = "BT002" -> 95 [] t = "BT004" -> 80
                  [] t = "BT005" -> 70 [] t = "BT006" -> 75 [] t = "BT009" -> 4
                  [] OTHER -> 85]
    IN  [term_id |-> term_id, criticality |-> Criticality[term_id]]

RULES ==
    << [rule_id |-> "R001", business_term_id |-> "BT001", threshold |-> 950],
       [rule_id |-> "R002", business_term_id |-> "BT001", threshold |-> 900],
       [rule_id |-> "R003", business_term_id |-> "BT002", threshold |-> 900],
       [rule_id |-> "R005", business_term_id |-> "BT003", threshold |-> 980],
       [rule_id |-> "R007", business_term_id |-> "BT004", threshold |-> 900],
       [rule_id |-> "R008", business_term_id |-> "BT005", threshold |-> 900],
       [rule_id |-> "R009", business_term_id |-> "BT006", threshold |-> 900],
       [rule_id |-> "R010", business_term_id |-> "BT007", threshold |-> 900],
       [rule_id |-> "R011", business_term_id |-> "BT008", threshold |-> 900],
       [rule_id |-> "R012", business_term_id |-> "BT009", threshold |-> 900] >>

TDE ==
    << [tde_id |-> "TDE001", business_term_id |-> "BT001"],
       [tde_id |-> "TDE002", business_term_id |-> "BT001"],
       [tde_id |-> "TDE003", business_term_id |-> "BT002"],
       [tde_id |-> "TDE007", business_term_id |-> "BT004"],
       [tde_id |-> "TDE008", business_term_id |-> "BT005"],
       [tde_id |-> "TDE009", business_term_id |-> "BT006"],
       [tde_id |-> "TDE010", business_term_id |-> "BT007"],
       [tde_id |-> "TDE011", business_term_id |-> "BT008"],
       [tde_id |-> "TDE012", business_term_id |-> "BT009"] >>

DBT_COLUMN_MAPPING ==
    << [model_name |-> "dim_customer", column_name |-> "email",       tde_id |-> "TDE001"],
       [model_name |-> "stg_customer", column_name |-> "email",       tde_id |-> "TDE002"],
       [model_name |-> "fct_revenue",  column_name |-> "revenue_usd", tde_id |-> "TDE003"],
       [model_name |-> "stg_orders",   column_name |-> "email",       tde_id |-> "TDE007"],
       [model_name |-> "fct_revenue",  column_name |-> "revenue_usd", tde_id |-> "TDE007"],
       [model_name |-> "dim_region",   column_name |-> "region_code", tde_id |-> "TDE007"],
       [model_name |-> "stg_payments", column_name |-> "amount_usd",  tde_id |-> "TDE009"],
       [model_name |-> "fct_refunds",  column_name |-> "revenue_usd", tde_id |-> "TDE010"],
       [model_name |-> "stg_contacts", column_name |-> "email",       tde_id |-> "TDE011"] >>

\* A SQL body, by what the scanner's expressions find in it: the aliases and bare
\* columns of its last SELECT, in order, and the number of matches of each pattern.
NoMatches == [p \in {} |-> 0]
DBT_SQL_MODELS ==
    [m \in {"dim_customer", "fct_revenue", "dim_region", "stg_orders", "fct_refunds",
            "stg_contacts"} |->
        CASE m = "dim_customer" ->
               [select_columns |-> <<"email", "full_name">>,
                matches |-> [p \in {"coalesce", "lower"} |-> 1]]
          [] m = "fct_revenue" ->
               [select_columns |-> <<"revenue_usd">>,
                matches |-> [p \in {"cast", "cast_integer", "join"} |-> 1]]
          [] m = "dim_region" ->
               [select_columns |-> <<"region_code">>, matches |-> NoMatches]
          [] m = "fct_refunds" ->
               [select_columns |-> <<"revenue_usd">>,
                matches |-> [p \in {"coalesce", "cast_integer"} |-> 1]]
          [] m = "stg_contacts" ->
               [select_columns |-> <<"email", "contact_email">>,
                matches |-> [p \in {"coalesce"} |-> 1]]
          [] OTHER ->
               [select_columns |-> <<"email">>,
                matches |-> [p \in {"coalesce"} |-> 1]]]

\* _rules_for_term, _tdes_for_term, _models_for_tde, _sql_for_model
_rules_for_term(term_id) == SelectSeq(RULES, LAMBDA r : r.business_term_id = term_id)
_tdes_for_term(term_id) == SelectSeq(TDE, LAMBDA r : r.business_term_id = term_id)
_models_for_tde(tde_id) == SelectSeq(DBT_COLUMN_MAPPING, LAMBDA r : r.tde_id = tde_id)
\* a model without a SQL body is given an empty one
_sql_for_model_defaulting(model_name) ==
    IF model_name \in DOMAIN DBT_SQL_MODELS THEN <<DBT_SQL_MODELS[model_name]>>
    ELSE <<[select_columns |-> <<>>, matches |-> NoMatches]>>

_sql_for_model(model_name) ==
    IF model_name \in DOMAIN DBT_SQL_MODELS THEN <<DBT_SQL_MODELS[model_name]>> ELSE <<>>

\* DQ_SCORES is a function tde_id -> sequence of the scores of days 1, 2, ...
\* (NoScore: no row for that date and element).
_score(sc, tde_id, date) ==
    IF tde_id \in DOMAIN sc /\ date \in 1..Len(sc[tde_id]) THEN sc[tde_id][date] ELSE NoScore

\* The scores at or before the date, newest first, at most `window` of them.
RECURSIVE RecentFrom(_, _, _, _)
RecentFrom(sc, tde_id, date, window) ==
    IF date < 1 \/ window = 0 THEN <<>>
    ELSE IF _score(sc, tde_id, date) = NoScore
         THEN RecentFrom(sc, tde_id, date - 1, window)
         ELSE <<_score(sc, tde_id, date)>> \o RecentFrom(sc, tde_id, date - 1, window - 1)

_recent_scores(sc, tde_id, date, window) == RecentFrom(sc, tde_id, date, window)

(***************************************************************************)
(* sql_scanner.py                                                          *)
(***************************************************************************)
\* The names of _PATTERNS, in the dict's order.
_PATTERNS ==
    <<"cast", "cast_integer", "coalesce", "join", "non_equi_join", "lower", "upper",
      "concat_pii", "lpad", "date_truncation", "replace">>

\* A column name (one word) matches the hint expression iff it is one of its words.
_PII_COLUMN_HINTS(col) ==
    col \in {"full_name", "date_of_birth", "dob", "ssn", "national_id", "passport", "phone",
             "address", "first_name", "last_name", "surname", "forename", "email"}

Repeat(x, n) == [i \in 1..n |-> x]

scan_model(model_name, body) ==
    LET columns_detected == body.select_columns
        transformations ==
            Flatten([i \in 1..Len(_PATTERNS) |->
                Repeat([pattern_type |-> _PATTERNS[i]], Get(body.matches, _PATTERNS[i], 0))])
        join_count == Len(SelectSeq(transformations, LAMBDA f : f.pattern_type = "join"))
        has_non_equi_join == \E i \in 1..Len(transformations) :
                                 transformations[i].pattern_type = "non_equi_join"
        pii_columns_exposed == SelectSeq(columns_detected, _PII_COLUMN_HINTS)
        transformation_types == {transformations[i].pattern_type : i \in 1..Len(transformations)}
        flags ==
            (IF "cast_integer" \in transformation_types THEN <<"INTEGER_CAST">>
             ELSE IF "cast" \in transformation_types THEN <<"CAST">> ELSE <<>>)
         \o (IF "coalesce" \in transformation_types THEN <<"COALESCE">> ELSE <<>>)
         \o (IF has_non_equi_join THEN <<"NON_EQUI_JOIN">>
             ELSE IF join_count > 0 THEN <<"JOIN_PRESENT">> ELSE <<>>)
         \o (IF "lower" \in transformation_types \/ "upper" \in transformation_types
             THEN <<"CASE_TRANSFORM">> ELSE <<>>)
         \o (IF "concat_pii" \in transformation_types THEN <<"CONCAT_PII">> ELSE <<>>)
         \o (IF pii_columns_exposed # <<>> THEN <<"PII_EXPOSED">> ELSE <<>>)
         \o (IF "lpad" \in transformation_types THEN <<"LPAD">> ELSE <<>>)
         \o (IF "date_truncation" \in transformation_types THEN <<"DATE_TRUNCATION">> ELSE <<>>)
    IN  [model_name |-> model_name,
         columns_detected |-> columns_detected,
         transformations |-> transformations,
         pii_columns_exposed |-> pii_columns_exposed,
         join_count |-> join_count,
         has_non_equi_join |-> has_non_equi_join,
         summary_flags |-> flags]

scan_to_dict(model_name, body) == scan_model(model_name, body)

(***************************************************************************)
(* policy_checker.py                                                       *)
(***************************************************************************)
\* policy_ontology.yaml, read by load_ontology: semantic type -> policy.
ONTOLOGY ==
    [ty \in {"email", "amount", "id", "pii"} |->
        CASE ty = "email" ->
               [required_validations |-> {"not_null", "format"},
                forbidden_transformations |-> {"coalesce", "lower"}]
          [] ty = "amount" ->
               [required_validations |-> {"numeric", "range"},
                forbidden_transformations |-> {"cast_integer", "coalesce"}]
          [] ty = "id" ->
               [required_validations |-> {"uniqueness", "format"},
                forbidden_transformations |-> {"coalesce", "concat_fallback"}]
          [] OTHER ->
               [required_validations |-> {"masking"},
                forbidden_transformations |-> {"concat_pii", "lower"}]]

load_ontology == ONTOLOGY

PolicyGap(column_name, semantic_type, missing_validation, forbidden_found, severity) ==
    [column_name |-> column_name, semantic_type |-> semantic_type,
     missing_validation |-> missing_validation, forbidden_found |-> forbidden_found,
     severity |-> severity]

\* pattern_type -> ontology key (.get: "" stands for None)
_SCANNER_TO_ONTOLOGY(obs_pattern) ==
    CASE obs_pattern = "cast_integer" -> "cast_integer"
      [] obs_pattern = "cast"         -> "cast_integer"
      [] obs_pattern = "coalesce"     -> "coalesce"
      [] obs_pattern = "lower"        -> "lower"
      [] obs_pattern = "concat_pii"   -> "concat_pii"
      [] obs_pattern = "lpad"         -> "concat_fallback"
      [] obs_pattern = "replace"      -> "concat_fallback"
      [] OTHER                        -> ""

_PATTERN_IMPLIES_MISSING(sem_type, obs_pattern) ==
    CASE sem_type = "email"  /\ obs_pattern = "coalesce"     -> <<"not_null", "format">>
      [] sem_type = "amount" /\ obs_pattern = "cast_integer" -> <<"numeric", "range">>
      [] sem_type = "amount" /\ obs_pattern = "coalesce"     -> <<"range">>
      [] sem_type = "id"     /\ obs_pattern = "coalesce"     -> <<"uniqueness">>
      [] sem_type = "id"     /\ obs_pattern = "lpad"         -> <<"format">>
      [] sem_type = "pii"    /\ obs_pattern = "concat_pii"   -> <<"masking">>
      [] sem_type = "pii"    /\ obs_pattern = "lower"        -> <<"masking">>
      [] OTHER                                               -> <<>>

_severity_for(validation, semantic_type) ==
    IF validation = "masking" \/ semantic_type = "pii" THEN "critical"
    ELSE IF validation \in {"uniqueness", "not_null"} \/ semantic_type = "id" THEN "high"
    ELSE "medium"

\* str.lower() on the type labels the oracle may give
Lower(s) ==
    CASE s = "PII" -> "pii" [] s = "EMAIL" -> "email" [] s = "AMOUNT" -> "amount"
      [] s = "ID" -> "id" [] OTHER -> s

RECURSIVE Dedupe(_, _)
Dedupe(gaps, seen) ==
    IF gaps = <<>> THEN <<>>
    ELSE LET key == <<gaps[1].column_name, gaps[1].missing_validation>>
         IN  IF key \in seen THEN Dedupe(Tail(gaps), seen)
             ELSE <<gaps[1]>> \o Dedupe(Tail(gaps), seen \cup {key})

severity_order(severity) ==
    CASE severity = "critical" -> 0 [] severity = "high" -> 1 [] severity = "medium" -> 2
      [] OTHER -> 3

\* no sort at all
SortBySeverity_unsorted(gaps) == gaps

\* list.sort(key=...) is stable: the gaps of each rank in their order, rank by rank.
SortBySeverity(gaps) ==
    Flatten([r \in 1..4 |-> SelectSeq(gaps, LAMBDA g : severity_order(g.severity) = r - 1)])

\* a loop that takes the validations a forbidden pattern compromises for any type
\* and does not ask whether the column's type requires them
generated_gaps_unrequired(column_semantic_map, scan_transformations, scan_flags, pii_exposed, iteration) ==
    LET ontology == load_ontology
        types == <<"email", "amount", "id", "pii">>
        ColumnGaps(item) ==
            LET col == item[1]
                sem_type_lower == Lower(item[2])
            IN  IF sem_type_lower \notin DOMAIN ontology THEN <<>>
                ELSE LET policy == ontology[sem_type_lower]
                         PatternGaps(obs_pattern) ==
                             LET ontology_key == _SCANNER_TO_ONTOLOGY(obs_pattern)
                                 implied_missing ==
                                     Flatten([u \in 1..Len(types) |->
                                                _PATTERN_IMPLIES_MISSING(types[u], obs_pattern)])
                             IN  IF ontology_key # ""
                                    /\ ontology_key \in policy.forbidden_transformations
                                 THEN [k \in 1..Len(implied_missing) |->
                                        PolicyGap(col, sem_type_lower, implied_missing[k],
                                                  obs_pattern,
                                                  _severity_for(implied_missing[k], sem_type_lower))]
                                 ELSE <<>>
                     IN  Flatten([j \in 1..Len(iteration) |-> PatternGaps(iteration[j])])
                         \o (IF sem_type_lower = "pii" /\ col \in SeqToSet(pii_exposed)
                             THEN <<PolicyGap(col, "pii", "masking", "plain_select", "critical")>>
                             ELSE <<>>)
    IN  Flatten([i \in 1..Len(column_semantic_map) |-> ColumnGaps(column_semantic_map[i])])

\* column_semantic_map: the dict's items in order, <<column, semantic type>>;
\* iteration: the order in which the set observed_patterns is iterated.
\* The list `gaps` as the loop over the columns leaves it, before the deduplication.
generated_gaps(column_semantic_map, scan_transformations, scan_flags, pii_exposed, iteration) ==
    LET ontology == load_ontology
        ColumnGaps(item) ==
            LET col == item[1]
                sem_type_lower == Lower(item[2])
            IN  IF sem_type_lower \notin DOMAIN ontology THEN <<>>
                ELSE LET policy == ontology[sem_type_lower]
                         PatternGaps(obs_pattern) ==
                             LET ontology_key == _SCANNER_TO_ONTOLOGY(obs_pattern)
                                 implied_missing ==
                                     _PATTERN_IMPLIES_MISSING(sem_type_lower, obs_pattern)
                             IN  IF ontology_key # ""
                                    /\ ontology_key \in policy.forbidden_transformations
                                 THEN Flatten([k \in 1..Len(implied_missing) |->
                                        IF implied_missing[k] \in policy.required_validations
                                        THEN <<PolicyGap(col, sem_type_lower, implied_missing[k],
                                                 obs_pattern,
                                                 _severity_for(implied_missing[k], sem_type_lower))>>
                                        ELSE <<>>])
                                 ELSE <<>>
                     IN  Flatten([j \in 1..Len(iteration) |-> PatternGaps(iteration[j])])
                         \o (IF sem_type_lower = "pii" /\ col \in SeqToSet(pii_exposed)
                             THEN <<PolicyGap(col, "pii", "masking", "plain_select", "critical")>>
                             ELSE <<>>)
    IN  Flatten([i \in 1..Len(column_semantic_map) |-> ColumnGaps(column_semantic_map[i])])

\* a detector that sorts the generated gaps without deduplicating them
detect_gaps_undeduped(column_semantic_map, scan_transformations, scan_flags, pii_exposed, iteration) ==
    SortBySeverity(generated_gaps(column_semantic_map, scan_transformations, scan_flags,
                                  pii_exposed, iteration))

detect_gaps(column_semantic_map, scan_transformations, scan_flags, pii_exposed, iteration) ==
    SortBySeverity(Dedupe(generated_gaps(column_semantic_map, scan_transformations, scan_flags,
                                         pii_exposed, iteration), {}))

observed_patterns(scan_transformations) ==
    {scan_transformations[i].pattern_type : i \in 1..Len(scan_transformations)}

(***************************************************************************)
(* event_emitter.py, database.py: the reasoning log.                       *)
(* The store is [EVENT_LOG: the rows in insertion order, sqlite_sequence:  *)
(* the AUTOINCREMENT counter of EVENT_LOG].  A row keeps the envelope's    *)
(* event_type, entity_type, entity_id and, of context and metrics, the     *)
(* values in Context; the timestamp and the explanation text are left out. *)
(***************************************************************************)
VALID_EVENT_TYPES ==
    {"rule_breached", "risk_assessed", "focus_selected", "investigation_started",
     "lineage_traced", "sql_analysis_completed", "policy_gap_detected",
     "recommendation_created", "outcome_measured", "learning_updated"}

Context(date, recommendation_type, target_column, validation, score_before, score_after, risk_score) ==
    [date |-> date, recommendation_type |-> recommendation_type,
     target_column |-> target_column, validation |-> validation,
     score_before |-> score_before, score_after |-> score_after, risk_score |-> risk_score]

OnDate(date) == Context(date, "", "", "", NoScore, NoScore, 0)


RECURSIVE MaxEventId(_)
MaxEventId(rows) ==
    IF rows = <<>> THEN 0 ELSE Max(rows[1].event_id, MaxEventId(Tail(rows)))

\* the type is not looked up
emit_event_unchecked(db, event_type, entity_type, entity_id, context) ==
    LET id == Max(db.sqlite_sequence, MaxEventId(db.EVENT_LOG)) + 1
        row == [event_id |-> id, event_type |-> event_type, entity_type |-> entity_type,
                entity_id |-> entity_id, context |-> context]
    IN  [db |-> [EVENT_LOG |-> Append(db.EVENT_LOG, row), sqlite_sequence |-> id],
         raised |-> FALSE, ret |-> id]

\* INSERT OR REPLACE under the id of the latest row
emit_event_replacing(db, event_type, entity_type, entity_id, context) ==
    IF event_type \notin VALID_EVENT_TYPES
    THEN [db |-> db, raised |-> TRUE, ret |-> 0]
    ELSE LET id == Max(1, db.sqlite_sequence)
             row == [event_id |-> id, event_type |-> event_type, entity_type |-> entity_type,
                     entity_id |-> entity_id, context |-> context]
         IN  [db |-> [EVENT_LOG |-> Append(SelectSeq(db.EVENT_LOG, LAMBDA r : r.event_id # id),
                                           row),
                      sqlite_sequence |-> id],
              raised |-> FALSE, ret |-> id]

\* Returns the store, whether ValueError was raised, and the new event_id (0 if raised).
emit_event(db, event_type, entity_type, entity_id, context) ==
    IF event_type \notin VALID_EVENT_TYPES
    THEN [db |-> db, raised |-> TRUE, ret |-> 0]
    ELSE LET id == Max(db.sqlite_sequence, MaxEventId(db.EVENT_LOG)) + 1
             row == [event_id |-> id, event_type |-> event_type, entity_type |-> entity_type,
                     entity_id |-> entity_id, context |-> context]
         IN  [db |-> [EVENT_LOG |-> Append(db.EVENT_LOG, row), sqlite_sequence |-> id],
              raised |-> FALSE, ret |-> id]

\* emit_event for each of the events, in order
RECURSIVE EmitAll(_, _)
EmitAll(db, events) ==
    IF events = <<>> THEN db
    ELSE EmitAll(emit_event(db, events[1].event_type, events[1].entity_type,
                            events[1].entity_id, events[1].context).db,
                 Tail(events))

Event(event_type, entity_type, entity_id, context) ==
    [event_type |-> event_type, entity_type |-> entity_type, entity_id |-> entity_id,
     context |-> context]

clear_event_log(db) == [EVENT_LOG |-> <<>>, sqlite_sequence |-> 0]

(***************************************************************************)
(* llm_client.py: the oracle behind _call, and the three capabilities the  *)
(* cycle uses.  An attempt is what one request to the API does: it fails   *)
(* (ok = FALSE: messages.create raises, or the response has no text), or   *)
(* it replies with a text (a tuple of strings).  json tells what json.loads *)
(* makes of the text: "object", "array", or "none" when the text is no     *)
(* JSON document; result is the parsed value.  attempts is the sequence of *)
(* what the API does on the first, second, ... request.                    *)
(***************************************************************************)
Failure == [ok |-> FALSE, text |-> <<>>, json |-> "none", result |-> <<>>]
Reply(text, json, result) == [ok |-> TRUE, text |-> text, json |-> json, result |-> result]

\* for attempt in range(2): return the text of the first attempt that succeeds;
\* raise RuntimeError when the second attempt fails too
_call_retrying_forever(attempts) ==
    LET ok == {i \in 1..Len(attempts) : attempts[i].ok}
        first == CHOOSE i \in ok : \A j \in ok : i <= j
    IN  IF ok = {} THEN [raised |-> TRUE, ret |-> Failure, made |-> Len(attempts)]
        ELSE [raised |-> FALSE, ret |-> attempts[first], made |-> first]

_call(attempts) ==
    IF attempts[1].ok THEN [raised |-> FALSE, ret |-> attempts[1], made |-> 1]
    ELSE IF attempts[2].ok THEN [raised |-> FALSE, ret |-> attempts[2], made |-> 2]
    ELSE [raised |-> TRUE, ret |-> Failure, made |-> 2]

_parse_json(text, fallback) == IF text.json = "none" THEN fallback ELSE text.result

\* the value is computed at every call and never stored
_cached_forgetting(cache, key, computed) ==
    [cache |-> cache, ret |-> computed.ret, raised |-> computed.raised, asked |-> TRUE]

\* if key not in _cache: _cache[key] = compute_fn()
_cached(cache, key, computed) ==
    IF key \in DOMAIN cache
    THEN [cache |-> cache, ret |-> cache[key], raised |-> FALSE, asked |-> FALSE]
    ELSE IF computed.raised
         THEN [cache |-> cache, ret |-> computed.ret, raised |-> TRUE, asked |-> TRUE]
         ELSE [cache |-> Put(cache, key, computed.ret), ret |-> computed.ret,
               raised |-> FALSE, asked |-> TRUE]

AllText(columns) == [i \in 1..Len(columns) |-> <<columns[i], "text">>]

\* _compute lets the RuntimeError of _call through instead of catching it
infer_semantic_types_unguarded(cache, sql_key, columns, attempts) ==
    LET raw == _call(attempts)
        result == _parse_json(raw.ret, EmptyDict)
    IN  _cached(cache, <<"semtype", sql_key, SeqToSet(columns)>>,
                IF raw.raised THEN [raised |-> TRUE, ret |-> <<>>]
                ELSE IF raw.ret.json = "array" THEN [raised |-> FALSE, ret |-> AllText(columns)]
                ELSE [raised |-> FALSE,
                      ret |-> [i \in 1..Len(columns) |->
                                 <<columns[i], Get(result, columns[i], "text")>>]])

\* except Exception: _call raised, or the reply is a JSON document without .get
infer_semantic_types(cache, sql_key, columns, attempts) ==
    LET raw == _call(attempts)
        result == _parse_json(raw.ret, EmptyDict)
    IN  _cached(cache, <<"semtype", sql_key, SeqToSet(columns)>>,
                IF raw.raised \/ raw.ret.json = "array"
                THEN [raised |-> FALSE, ret |-> AllText(columns)]
                ELSE [raised |-> FALSE,
                      ret |-> [i \in 1..Len(columns) |->
                                 <<columns[i], Get(result, columns[i], "text")>>]])

\* The risks of a model's SQL: the reply's list, [] when _call raised or the reply
\* is no JSON array
detect_risky_transformations(cache, sql_key, attempts) ==
    LET raw == _call(attempts)
        result == _parse_json(raw.ret, <<>>)
    IN  _cached(cache, <<"risks", sql_key>>,
                IF raw.raised THEN [raised |-> FALSE, ret |-> <<>>]
                ELSE IF raw.ret.json = "array" THEN [raised |-> FALSE, ret |-> result]
                ELSE [raised |-> FALSE, ret |-> <<>>])

\* The template string generate_explanation falls back to
Template(event_type, entity_name) ==
    <<"Governance event", event_type, "recorded for", entity_name,
      "Further investigation is required">>

\* The narrative of an event: the reply's text, the template when _call raised
generate_explanation(cache, event_type, entity_name, attempts) ==
    LET raw == _call(attempts)
    IN  _cached(cache, <<"explain", event_type, entity_name>>,
                IF raw.raised THEN [raised |-> FALSE, ret |-> Template(event_type, entity_name)]
                ELSE [raised |-> FALSE, ret |-> raw.ret.text])

(***************************************************************************)
(* agent.py: risk calculation                                              *)
(***************************************************************************)
Reverse(s) == [i \in 1..Len(s) |-> s[Len(s) + 1 - i]]

\* a fit over the scores as they are handed over, newest first
_trend_decline_factor_unreversed(scores) ==
    IF Len(scores) < 2 THEN 1000
    ELSE LET n  == Len(scores)
             N2 == SumSeq([i \in 1..n |-> (2 * (i - 1) - (n - 1)) * scores[i]])
             D2 == (n * (n * n - 1)) \div 6
         IN  Max(MIN_TREND_FACTOR, Min(MAX_TREND_FACTOR, 1000 - ((20 * N2) \div D2)))

\* scores: newest first.  With x = 0..n-1 and s the scores oldest first,
\*   slope = num / den = N2 / D2,  N2 = sum (2x - (n-1)) * s[x],  D2 = n(n*n-1)/6,
\* and the factor 1 - 20 * slope, in units of 1/1000, is 1000 - 20 * N2 / D2, which
\* is whole for every window of at most TREND_WINDOW_DAYS scores.
_trend_decline_factor(scores) ==
    IF Len(scores) < 2 THEN 1000
    ELSE LET n  == Len(scores)
             s  == Reverse(scores)
             N2 == SumSeq([i \in 1..n |-> (2 * (i - 1) - (n - 1)) * s[i]])
             D2 == (n * (n * n - 1)) \div 6
             factor == 1000 - ((20 * N2) \div D2)
         IN  Max(MIN_TREND_FACTOR, Min(MAX_TREND_FACTOR, factor))

\* round(total * attention, 4): total in units of 10^-8, attention of 10^-4, the
\* result in units of 10^-4, rounded half to even; computed in two halves to stay
\* within 32 bits.
RoundRisk(total, attention) ==
    LET t1  == total \div 10000
        t0  == total % 10000
        u   == t0 * attention
        p   == (t1 * attention) + (u \div 10000)
        q   == p \div 10000
        rem == ((p % 10000) * 10000) + (u % 10000)
    IN  IF 2 * rem > 100000000 \/ (2 * rem = 100000000 /\ q % 2 = 1) THEN q + 1 ELSE q

\* The (rule, element) pairs of a term in loop order: for rule ... for tde ...
RuleTdePairs(term_id) ==
    LET rules == _rules_for_term(term_id)
        tdes  == _tdes_for_term(term_id)
    IN  Flatten([i \in 1..Len(rules) |-> [j \in 1..Len(tdes) |-> <<rules[i], tdes[j]>>]])

\* a missing score counts as a score below every threshold
IsBreach_missing_is_low(sc, pair, date) ==
    _score(sc, pair[2].tde_id, date) < pair[1].threshold

IsBreach(sc, pair, date) ==
    LET s == _score(sc, pair[2].tde_id, date)
    IN  s # NoScore /\ s < pair[1].threshold

\* a risk that leaves the trend out: every breach counts with factor 1.0
_term_risk_untrended(sc, term, date, m) ==
    LET pairs == SelectSeq(RuleTdePairs(term.term_id), LAMBDA p : IsBreach(sc, p, date))
        breaches ==
            [i \in 1..Len(pairs) |->
                LET s   == _score(sc, pairs[i][2].tde_id, date)
                    gap == pairs[i][1].threshold - s
                IN  [rule_id |-> pairs[i][1].rule_id, tde_id |-> pairs[i][2].tde_id,
                     score |-> s, threshold |-> pairs[i][1].threshold, gap |-> gap,
                     trend_factor |-> 1000, risk |-> term.criticality * gap * 1000]]
        att == get_attention_weight(m, term.term_id)
    IN  [risk |-> RoundRisk(SumSeq([i \in 1..Len(breaches) |-> breaches[i].risk]), att.ret),
         breaches |-> breaches, mem |-> att.mem]

\* Returns the adjusted risk, the breaches and the memory (the attention read).
_term_risk(sc, term, date, m) ==
    LET pairs == SelectSeq(RuleTdePairs(term.term_id), LAMBDA p : IsBreach(sc, p, date))
        breaches ==
            [i \in 1..Len(pairs) |->
                LET s   == _score(sc, pairs[i][2].tde_id, date)
                    tdf == _trend_decline_factor(
                               _recent_scores(sc, pairs[i][2].tde_id, date, TREND_WINDOW_DAYS))
                    gap == pairs[i][1].threshold - s
                IN  [rule_id |-> pairs[i][1].rule_id, tde_id |-> pairs[i][2].tde_id,
                     score |-> s, threshold |-> pairs[i][1].threshold, gap |-> gap,
                     trend_factor |-> tdf, risk |-> term.criticality * gap * tdf]]
        total_risk == SumSeq([i \in 1..Len(breaches) |-> breaches[i].risk])
        att == get_attention_weight(m, term.term_id)
    IN  [risk |-> RoundRisk(total_risk, att.ret), breaches |-> breaches, mem |-> att.mem]

\* a sort that puts the later of two equal risks first
RECURSIVE InsertByRisk_unstable(_, _)
InsertByRisk_unstable(sorted, x) ==
    IF sorted = <<>> THEN <<x>>
    ELSE IF sorted[1].risk > x.risk
         THEN <<sorted[1]>> \o InsertByRisk_unstable(Tail(sorted), x)
         ELSE <<x>> \o sorted

\* sorted(term_risks, key=risk, reverse=True): stable, equal risks keep their order.
RECURSIVE InsertByRisk(_, _)
InsertByRisk(sorted, x) ==
    IF sorted = <<>> THEN <<x>>
    ELSE IF sorted[1].risk >= x.risk THEN <<sorted[1]>> \o InsertByRisk(Tail(sorted), x)
         ELSE <<x>> \o sorted

RECURSIVE SortByRiskFrom(_, _)
SortByRiskFrom(sorted, rest) ==
    IF rest = <<>> THEN sorted ELSE SortByRiskFrom(InsertByRisk(sorted, rest[1]), Tail(rest))

SortByRisk(term_risks) == SortByRiskFrom(<<>>, term_risks)

(***************************************************************************)
(* agent.py: recommendation logic                                          *)
(***************************************************************************)
Recommendation(type, target_column, validation) ==
    [type |-> type, target_column |-> target_column, validation |-> validation]

IsCriticalMasking(g) == g.severity = "critical" /\ g.missing_validation = "masking"

\* a selector that looks for a critical masking gap at the head of the list only
_choose_recommendation_head(gaps, scan, m) ==
    IF gaps # <<>> /\ IsCriticalMasking(gaps[1])
    THEN Recommendation("add_validation", gaps[1].column_name, "masking")
    ELSE IF gaps # <<>>
    THEN Recommendation(IF preferred_recommendation_type(m) = "move_earlier"
                        THEN "move_earlier" ELSE "add_validation",
                        gaps[1].column_name, gaps[1].missing_validation)
    ELSE IF scan.summary_flags # <<>>
    THEN Recommendation("add_validation", "multiple", "format")
    ELSE Recommendation("adjust_threshold", "n/a", "n/a")

_choose_recommendation(gaps, scan, m) ==
    LET preferred == preferred_recommendation_type(m)
        masking == SelectSeq(gaps, IsCriticalMasking)
    IN  IF gaps # <<>>
        THEN IF masking # <<>>
             THEN Recommendation("add_validation", masking[1].column_name, "masking")
             ELSE IF preferred = "move_earlier"
                  THEN Recommendation("move_earlier", gaps[1].column_name,
                                      gaps[1].missing_validation)
                  ELSE Recommendation("add_validation", gaps[1].column_name,
                                      gaps[1].missing_validation)
        ELSE IF scan.summary_flags # <<>>
             THEN Recommendation("add_validation", "multiple", "format")
             ELSE Recommendation("adjust_threshold", "n/a", "n/a")

(***************************************************************************)
(* agent.py: the steps of GovernanceAgent.  Each returns the parts of the  *)
(* state it writes (db: the store, mem: the memory) and its return value.  *)
(***************************************************************************)
\* The breaches of the date in loop order: for term ... for rule ... for tde ...
AllBreaches(trms, sc, date) ==
    Flatten([i \in 1..Len(trms) |->
        LET pairs == SelectSeq(RuleTdePairs(trms[i]), LAMBDA p : IsBreach(sc, p, date))
        IN  [j \in 1..Len(pairs) |->
                [term_id |-> trms[i], rule_id |-> pairs[j][1].rule_id,
                 tde_id |-> pairs[j][2].tde_id,
                 score |-> _score(sc, pairs[j][2].tde_id, date),
                 threshold |-> pairs[j][1].threshold]]])

RECURSIVE RecordBreaches(_, _)
RecordBreaches(m, breaches) ==
    IF breaches = <<>> THEN m
    ELSE RecordBreaches(record_breach(m, breaches[1].term_id), Tail(breaches))

_step_detect_breaches(db, m, trms, sc, date) ==
    LET all_breaches == AllBreaches(trms, sc, date)
    IN  [db  |-> EmitAll(db, [i \in 1..Len(all_breaches) |->
                     Event("rule_breached", "rule", all_breaches[i].rule_id,
                           Context(date, "", "", "", NoScore, all_breaches[i].score, 0))]),
         mem |-> RecordBreaches(m, all_breaches),
         ret |-> all_breaches]

RECURSIVE AssessFrom(_, _, _, _, _, _)
AssessFrom(db, m, trms, sc, date, term_risks) ==
    IF trms = <<>> THEN [db |-> db, mem |-> m, ret |-> SortByRisk(term_risks)]
    ELSE LET term == Term(trms[1])
             r    == _term_risk(sc, term, date, m)
             m2   == IF r.breaches = <<>> THEN record_no_breach(r.mem, term.term_id) ELSE r.mem
             att  == get_attention_weight(m2, term.term_id)
             e    == emit_event(db, "risk_assessed", "business_term", term.term_id,
                                Context(date, "", "", "", NoScore, NoScore, r.risk))
         IN  AssessFrom(e.db, att.mem, Tail(trms), sc, date,
                        Append(term_risks, [term |-> term, risk |-> r.risk]))

\* an assessment that resets every concept, in breach or not
RECURSIVE AssessFrom_resetting(_, _, _, _, _, _)
AssessFrom_resetting(db, m, trms, sc, date, term_risks) ==
    IF trms = <<>> THEN [db |-> db, mem |-> m, ret |-> SortByRisk(term_risks)]
    ELSE LET term == Term(trms[1])
             r    == _term_risk(sc, term, date, m)
             e    == emit_event(db, "risk_assessed", "business_term", term.term_id,
                                Context(date, "", "", "", NoScore, NoScore, r.risk))
         IN  AssessFrom_resetting(e.db, record_no_breach(r.mem, term.term_id), Tail(trms),
                                  sc, date, Append(term_risks, [term |-> term, risk |-> r.risk]))
_step_assess_risk_resetting(db, m, trms, sc, date) ==
    AssessFrom_resetting(db, m, trms, sc, date, <<>>)

_step_assess_risk(db, m, trms, sc, date) == AssessFrom(db, m, trms, sc, date, <<>>)

\* the focus is not entered in the memory's history
_step_select_focus_unrecorded(db, m, term_risks, date, day_num) ==
    LET focus_term == term_risks[1].term
        focus_risk == term_risks[1].risk
    IN  [db  |-> emit_event(db, "focus_selected", "business_term", focus_term.term_id,
                            Context(date, "", "", "", NoScore, NoScore, focus_risk)).db,
         mem |-> get_attention_weight(m, focus_term.term_id).mem,
         ret |-> focus_term]

_step_select_focus(db, m, term_risks, date, day_num) ==
    LET focus_term == term_risks[1].term
        focus_risk == term_risks[1].risk
        m1 == record_focus(m, day_num, focus_term.term_id)
        m2 == get_attention_weight(m1, focus_term.term_id).mem
    IN  [db  |-> emit_event(db, "focus_selected", "business_term", focus_term.term_id,
                            Context(date, "", "", "", NoScore, NoScore, focus_risk)).db,
         mem |-> m2,
         ret |-> focus_term]

\* the step measures against the entry _prev holds, whichever concept it is of
_step_measure_outcome_unkeyed(db, m, prv, sc, term, date) ==
    LET tdes == _tdes_for_term(term.term_id)
        today_score == _score(sc, tdes[1].tde_id, date)
        prev_info == prv[CHOOSE t \in DOMAIN prv : t = term.term_id \/ term.term_id \notin DOMAIN prv]
    IN  IF DOMAIN prv = {} THEN [db |-> db, mem |-> m]
        ELSE IF tdes = <<>> THEN [db |-> db, mem |-> m]
        ELSE IF today_score = NoScore THEN [db |-> db, mem |-> m]
        ELSE [mem |-> record_outcome(m, 0, term.term_id, prev_info.recommendation_type,
                                     today_score).mem,
              db  |-> emit_event(db, "outcome_measured", "business_term", term.term_id,
                                 Context(date, prev_info.recommendation_type, "", "",
                                         prev_info.score, today_score, 0)).db]

\* _prev: term_id -> [score, recommendation_type]
_step_measure_outcome(db, m, prv, sc, term, date) ==
    LET tdes == _tdes_for_term(term.term_id)
        today_score == _score(sc, tdes[1].tde_id, date)
        prev_info == prv[term.term_id]
    IN  IF term.term_id \notin DOMAIN prv THEN [db |-> db, mem |-> m]
        ELSE IF tdes = <<>> THEN [db |-> db, mem |-> m]
        ELSE IF today_score = NoScore THEN [db |-> db, mem |-> m]
        ELSE [mem |-> record_outcome(m, 0, term.term_id, prev_info.recommendation_type,
                                     today_score).mem,
              db  |-> emit_event(db, "outcome_measured", "business_term", term.term_id,
                                 Context(date, prev_info.recommendation_type, "", "",
                                         prev_info.score, today_score, 0)).db]

\* the step logs nothing
_step_start_investigation_silent(db, term, date) == [db |-> db]

_step_start_investigation(db, term, date) ==
    [db |-> emit_event(db, "investigation_started", "business_term", term.term_id,
                       OnDate(date)).db]

\* sorted(all_models): the names of the store's models in string order
SortedModels(S) ==
    LET ModelNames ==
            <<"dim_customer", "dim_region", "fct_refunds", "fct_revenue", "stg_contacts",
              "stg_customer", "stg_orders", "stg_payments">>
    IN  SelectSeq(ModelNames, LAMBDA n : n \in S)

_step_trace_lineage(db, term, date) ==
    LET tdes == _tdes_for_term(term.term_id)
        lineage == [i \in 1..Len(tdes) |->
                       [tde_id |-> tdes[i].tde_id, models |-> _models_for_tde(tdes[i].tde_id)]]
        all_models == {r.model_name : r \in UNION {SeqToSet(lineage[i].models) :
                                                      i \in 1..Len(lineage)}}
    IN  [db  |-> emit_event(db, "lineage_traced", "business_term", term.term_id,
                            OnDate(date)).db,
         ret |-> [lineage |-> lineage, models |-> SortedModels(all_models)]]

\* The columns of the model that the lineage names, in the lineage's order
RelevantCols(lineage_info, model_name) ==
    Flatten([i \in 1..Len(lineage_info.lineage) |->
        LET ms == SelectSeq(lineage_info.lineage[i].models,
                            LAMBDA r : r.model_name = model_name)
        IN  [j \in 1..Len(ms) |-> ms[j].column_name]])

\* The models of the lineage that have a SQL body, in the lineage's order
AnalysedModels(lineage_info) ==
    SelectSeq(lineage_info.models, LAMBDA n : _sql_for_model(n) # <<>>)

\* set(relevant_cols + scan["columns_detected"])
AllColsSet(lineage_info, model_name) ==
    SeqToSet(RelevantCols(lineage_info, model_name))
        \cup SeqToSet(scan_to_dict(model_name, _sql_for_model(model_name)[1]).columns_detected)

\* all_cols: for each analysed model the order list(set(...)) gives its columns;
\* responses: for each analysed model what the API does on the attempts of the
\* three requests (types, risks, explanation).  cch holds the semantic-type and
\* the risk entries of _cache; the narrative, which the modelled events leave out,
\* is always asked for.  raised: an exception left a capability, which ends the
\* step.
RECURSIVE AnalyzeFrom(_, _, _, _, _, _, _, _)
AnalyzeFrom(db, cch, term, lineage_info, models, date, choice, analysis_results) ==
    IF models = <<>>
    THEN [db |-> db, cache |-> cch, ret |-> analysis_results, raised |-> FALSE]
    ELSE LET model_name == models[1]
             sql == _sql_for_model(model_name)
         IN  IF sql = <<>>
             THEN AnalyzeFrom(db, cch, term, lineage_info, Tail(models), date, choice,
                              analysis_results)
             ELSE LET scan == scan_to_dict(model_name, sql[1])
                      relevant_cols == RelevantCols(lineage_info, model_name)
                      oracle == choice.responses[model_name]
                      sem == infer_semantic_types(cch, model_name, choice.all_cols[model_name],
                                                  oracle.types)
                      llm_risks == detect_risky_transformations(sem.cache, model_name,
                                                                oracle.risks)
                      explanation == generate_explanation(EmptyDict, "sql_analysis_completed",
                                                          model_name, oracle.explanation)
                      e == emit_event(db, "sql_analysis_completed", "dbt_model", model_name,
                                      OnDate(date))
                  IN  IF sem.raised \/ llm_risks.raised \/ explanation.raised
                      THEN [db |-> db, cache |-> llm_risks.cache, ret |-> analysis_results,
                            raised |-> TRUE]
                      ELSE AnalyzeFrom(e.db, llm_risks.cache, term, lineage_info, Tail(models),
                                       date, choice,
                                       Append(analysis_results,
                                              [model_name |-> model_name, scan |-> scan,
                                               semantic_types |-> sem.ret,
                                               llm_risks |-> llm_risks.ret,
                                               relevant_columns |-> relevant_cols]))

_step_analyze_sql(db, cch, term, lineage_info, date, choice) ==
    AnalyzeFrom(db, cch, term, lineage_info, lineage_info.models, date, choice, <<>>)

\* iterations: for each analysed model the order in which detect_gaps iterates the
\* set of observed patterns.
RECURSIVE CheckFrom(_, _, _, _, _)
CheckFrom(db, analysis_results, date, iterations, all_gaps) ==
    IF analysis_results = <<>> THEN [db |-> db, ret |-> all_gaps]
    ELSE LET analysis == analysis_results[1]
             gaps == detect_gaps(analysis.semantic_types, analysis.scan.transformations,
                                 analysis.scan.summary_flags, analysis.scan.pii_columns_exposed,
                                 iterations[analysis.model_name])
             db2 == EmitAll(db, [i \in 1..Len(gaps) |->
                        Event("policy_gap_detected", "dbt_model", analysis.model_name,
                              Context(date, "", gaps[i].column_name, gaps[i].missing_validation,
                                      NoScore, NoScore, 0))])
         IN  CheckFrom(db2, Tail(analysis_results), date, iterations, all_gaps \o gaps)

_step_check_policies(db, analysis_results, date, iterations) ==
    CheckFrom(db, analysis_results, date, iterations, <<>>)

\* (_score(conn, tdes[0]["tde_id"], date_str) if tdes else 0.0) or 0.0
primary_score(sc, term, date) ==
    LET tdes == _tdes_for_term(term.term_id)
    IN  IF tdes = <<>> THEN 0
        ELSE IF _score(sc, tdes[1].tde_id, date) = NoScore THEN 0
        ELSE _score(sc, tdes[1].tde_id, date)

\* the recommendation goes into _prev but not into the memory
_step_create_recommendation_unrecorded(db, m, prv, term, gaps, analysis_results, date, current_score) ==
    LET first_scan == IF analysis_results = <<>> THEN [summary_flags |-> <<>>]
                      ELSE analysis_results[1].scan
        rec == _choose_recommendation(gaps, first_scan, m)
    IN  [mem |-> m,
         prv |-> Put(prv, term.term_id,
                     [score |-> current_score, recommendation_type |-> rec.type]),
         db  |-> emit_event(db, "recommendation_created", "business_term", term.term_id,
                            Context(date, rec.type, rec.target_column, rec.validation,
                                    NoScore, current_score, 0)).db,
         ret |-> rec]

_step_create_recommendation(db, m, prv, term, gaps, analysis_results, date, current_score) ==
    LET first_scan == IF analysis_results = <<>> THEN [summary_flags |-> <<>>]
                      ELSE analysis_results[1].scan
        rec == _choose_recommendation(gaps, first_scan, m)
    IN  [mem |-> record_recommendation(m, 0, term.term_id, rec.type, current_score),
         prv |-> Put(prv, term.term_id,
                     [score |-> current_score, recommendation_type |-> rec.type]),
         db  |-> emit_event(db, "recommendation_created", "business_term", term.term_id,
                            Context(date, rec.type, rec.target_column, rec.validation,
                                    NoScore, current_score, 0)).db,
         ret |-> rec]

_step_update_learning(db, m, day_num, date) ==
    [db |-> emit_event(db, "learning_updated", "system", "agent",
                       Context(date, preferred_recommendation_type(m), "", "",
                               NoScore, NoScore, Len(m.outcomes))).db]

(***************************************************************************)
(* State.                                                                  *)
(*   memory   the agent's LearningMemory                                   *)
(*   prev     GovernanceAgent._prev: term_id -> [score, recommendation_type]*)
(*   terms    BUSINESS_TERMS: the term ids in the table's order            *)
(*   scores   DQ_SCORES: tde_id -> the scores of days 1, 2, ...            *)
(*   db       EVENT_LOG and its AUTOINCREMENT counter                      *)
(*   cache    llm_client._cache, the semantic-type entries                 *)
(*   pc       "idle" between cycles, else the step run_daily_cycle is at   *)
(*   day      the number (and date) of the current or last cycle           *)
(*   local    the locals of run_daily_cycle                                *)
(*   result   what the last run_daily_cycle returned (or that it raised)   *)
(* History, written but never read by the program's steps:                 *)
(*   steps        the steps the current or last cycle has run              *)
(*   emitted      for each of them, the number of rows it appended         *)
(*   cycle_start  the length of EVENT_LOG when the cycle began             *)
(*   mem_at_start the memory when the cycle began                          *)
(*   lastCall     the last direct call of the memory's or the log's        *)
(*                interface, with what it returned                         *)
(*   nCalls       the number of such calls                                 *)
(*   opsCalled    the names of the memory's operations called so far       *)
(*   recs         (term, type) -> <<the number of record_recommendation    *)
(*                calls for it, the score of the latest one>>              *)
(***************************************************************************)
VARIABLES memory, prev, terms, scores, db, cache, pc, day, local, result,
          steps, emitted, cycle_start, mem_at_start, lastCall, nCalls, opsCalled, recs

vars == <<memory, prev, terms, scores, db, cache, pc, day, local, result,
          steps, emitted, cycle_start, mem_at_start, lastCall, nCalls, opsCalled, recs>>

agentVars == <<prev, terms, scores, db, cache, pc, day, local, result,
               steps, emitted, cycle_start, mem_at_start>>
callVars == <<lastCall, nCalls, opsCalled>>

Recommended(key, score) == Put(recs, key, <<Get(recs, key, <<0, NoScore>>)[1] + 1, score>>)

NoCall == [op |-> "none", term_id |-> "", rtype |-> "", score |-> NoScore,
           event_type |-> "", raised |-> FALSE, ret |-> <<>>]

NoTerm == [term_id |-> "", criticality |-> 0]
NoLocal ==
    [all_breaches |-> <<>>, term_risks |-> <<>>, focus_term |-> NoTerm,
     lineage_info |-> [lineage |-> <<>>, models |-> <<>>],
     analysis_results |-> <<>>, gaps |-> <<>>, primary_score |-> NoScore,
     rec |-> Recommendation("", "", "")]
NoResult == [status |-> "none", day |-> 0, focus_term |-> "", recommendation |-> ""]

TdeIds == {TDE[i].tde_id : i \in 1..Len(TDE)}

\* GovernanceAgent.__init__ on a store whose log is empty and holds no score yet
InitWith(trms) ==
    /\ memory = LearningMemory
    /\ prev = EmptyDict
    /\ terms = trms
    /\ scores = [t \in TdeIds |-> <<>>]
    /\ db = [EVENT_LOG |-> <<>>, sqlite_sequence |-> 0]
    /\ cache = EmptyDict
    /\ pc = "idle"
    /\ day = 0
    /\ local = NoLocal
    /\ result = NoResult
    /\ steps = <<>>
    /\ emitted = <<>>
    /\ cycle_start = 0
    /\ mem_at_start = LearningMemory
    /\ lastCall = NoCall
    /\ nCalls = 0
    /\ opsCalled = {}
    /\ recs = EmptyDict

(***************************************************************************)
(* The memory's interface, called directly.                                *)
(***************************************************************************)
MemTerms == {"BT001", "BT002"}

Called(op, term_id, rtype, score, ret) ==
    /\ lastCall' = [op |-> op, term_id |-> term_id, rtype |-> rtype, score |-> score,
                    event_type |-> "", raised |-> FALSE, ret |-> ret]
    /\ nCalls' = nCalls + 1
    /\ opsCalled' = opsCalled \cup {op}
    /\ recs' = IF op = "record_recommendation" THEN Recommended(<<term_id, rtype>>, score)
               ELSE recs
    /\ UNCHANGED agentVars

MemRecordBreach(t) ==
    /\ memory' = record_breach(memory, t)
    /\ Called("record_breach", t, "", NoScore, <<>>)

MemRecordNoBreach(t) ==
    /\ memory' = record_no_breach(memory, t)
    /\ Called("record_no_breach", t, "", NoScore, <<>>)

MemRecordRecommendation(d, t, ty, s) ==
    /\ memory' = record_recommendation(memory, d, t, ty, s)
    /\ Called("record_recommendation", t, ty, s, <<>>)

MemRecordOutcome(d, t, ty, s) ==
    LET r == record_outcome(memory, d, t, ty, s)
    IN  /\ memory' = r.mem
        /\ Called("record_outcome", t, ty, s, r.ret)

MemGetAttentionWeight(t) ==
    LET r == get_attention_weight(memory, t)
    IN  /\ memory' = r.mem
        /\ Called("get_attention_weight", t, "", NoScore, <<r.ret>>)

MemCalls(days, types, scoreSet) ==
    \/ \E t \in MemTerms : MemRecordBreach(t)
    \/ \E t \in MemTerms : MemRecordNoBreach(t)
    \/ \E d \in days, t \in MemTerms, ty \in types, s \in scoreSet :
           MemRecordRecommendation(d, t, ty, s)
    \/ \E d \in days, t \in MemTerms, ty \in types, s \in scoreSet :
           MemRecordOutcome(d, t, ty, s)

\* Every operation on every key, with day 0 as the agent passes it
MemInit == InitWith(<<>>)
MemSpec == MemInit /\ [][nCalls < MaxCalls /\ MemCalls({0}, RecTypeSet, {800, 801, 900})]_vars

\* Long runs on one recommendation type, far enough for both clamps of the weight
AttSpec == MemInit /\ [][nCalls < MaxAttCalls /\ MemCalls({0}, {"add_validation"}, {800, 900})]_vars

\* The accessor of the weights among the calls that update them
MaxReads == 3
ReadSpec ==
    /\ MemInit
    /\ [][ /\ nCalls < MaxReads
           /\ \/ MemCalls({0}, {"add_validation"}, {800, 900})
              \/ \E t \in MemTerms : MemGetAttentionWeight(t) ]_vars

(***************************************************************************)
(* run_simulation.py, agent.py: the daily cycles.  run_daily_cycle runs    *)
(* its steps one after the other; pc names the step that comes next.       *)
(***************************************************************************)
\* The stores the agent is run on: no concept at all; one concept without any
\* element; two concepts with elements; the concept without any element before one
\* with an element; one concept whose lineage runs through three models.

\* The DQ_SCORES rows a date may bring for an element
ScoreChoices(tde_id, trms) ==
    IF \A i \in 1..Len(TDE) :
           TDE[i].tde_id = tde_id => TDE[i].business_term_id \notin SeqToSet(trms)
    THEN {NoScore}
    ELSE CASE tde_id = "TDE001" -> {NoScore, 880, 960}
           [] tde_id = "TDE002" -> {NoScore, 940}
           [] tde_id = "TDE012" -> {899, 950}
           [] OTHER             -> {850, 950}

\* What the oracle replies when it is asked for the types of a model's columns,
\* for the risks of its SQL, and for a narrative
TypesReply ==
    Reply(<<"types">>, "object", [c \in {"email", "contact_email", "full_name", "revenue_usd"} |->
                       CASE c \in {"email", "contact_email"} -> "email"
                         [] c = "full_name" -> "PII"
                         [] OTHER -> "amount"])
RisksReply ==
    Reply(<<"risks">>, "array", <<[transformation_type |-> "coalesce", severity |-> "medium"]>>)
NarrativeReply == Reply(<<"narrative">>, "none", <<>>)

\* What the API may do on the two attempts of a model's three requests: a total
\* outage, no failure at all, and a recovery at every second attempt
Outage ==
    [types |-> <<Failure, Failure>>, risks |-> <<Failure, Failure>>,
     explanation |-> <<Failure, Failure>>]
OracleResponses ==
    { Outage,
      [types |-> <<TypesReply, Failure>>, risks |-> <<RisksReply, Failure>>,
       explanation |-> <<NarrativeReply, Failure>>],
      [types |-> <<Failure, TypesReply>>, risks |-> <<Failure, RisksReply>>,
       explanation |-> <<Failure, NarrativeReply>>] }

\* The orders list(set(...)) may give each analysed model's columns, with what the
\* API does
AnalysisChoicesUnder(lineage_info, responses) ==
    LET ms == SeqToSet(AnalysedModels(lineage_info))
        orders == UNION {Orderings(AllColsSet(lineage_info, n)) : n \in ms}
    IN  { [all_cols |-> c, responses |-> r] :
            c \in {f \in [ms -> orders] :
                      \A n \in ms : f[n] \in Orderings(AllColsSet(lineage_info, n))},
            r \in [ms -> responses] }

AnalysisChoices(lineage_info) == AnalysisChoicesUnder(lineage_info, OracleResponses)

\* The orders in which the set of a model's observed patterns may be iterated
IterationChoices(analysis_results) ==
    LET ms == {analysis_results[i].model_name : i \in 1..Len(analysis_results)}
        pats(n) == observed_patterns(scan_to_dict(n, _sql_for_model(n)[1]).transformations)
    IN  {f \in [ms -> UNION {Orderings(pats(n)) : n \in ms}] :
            \A n \in ms : f[n] \in Orderings(pats(n))}

\* run_daily_cycle: the step that follows each step
StepOrder ==
    <<"detect_breaches", "assess_risk", "select_focus", "measure_outcome",
      "start_investigation", "trace_lineage", "analyze_sql", "check_policies",
      "create_recommendation", "update_learning">>

\* the steps in the order of the numbers the module's docstring gives them
NextStep_numbered(step) ==
    CASE step = "select_focus"          -> "start_investigation"
      [] step = "start_investigation"   -> "trace_lineage"
      [] step = "create_recommendation" -> "measure_outcome"
      [] step = "measure_outcome"       -> "update_learning"
      [] step = "update_learning"       -> "idle"
      [] OTHER -> LET i == CHOOSE j \in 1..Len(StepOrder) : StepOrder[j] = step
                  IN  StepOrder[i + 1]

NextStep(step) ==
    CASE step = "detect_breaches"       -> "assess_risk"
      [] step = "assess_risk"           -> "select_focus"
      [] step = "select_focus"          -> "measure_outcome"
      [] step = "measure_outcome"       -> "start_investigation"
      [] step = "start_investigation"   -> "trace_lineage"
      [] step = "trace_lineage"         -> "analyze_sql"
      [] step = "analyze_sql"           -> "check_policies"
      [] step = "check_policies"        -> "create_recommendation"
      [] step = "create_recommendation" -> "update_learning"
      [] step = "update_learning"       -> "idle"

\* The step `name` is over and `next` follows (db' is set by the step)
Goto(next, name) ==
    /\ pc' = next
    /\ steps' = Append(steps, name)
    /\ emitted' = Append(emitted, Len(db'.EVENT_LOG) - Len(db.EVENT_LOG))
    /\ UNCHANGED <<terms, scores, day, cycle_start, mem_at_start, callVars>>

Return(r) == result' = r
Raised(exception) ==
    [status |-> exception, day |-> day, focus_term |-> "", recommendation |-> ""]

\* run_simulation.py: the loop calls run_daily_cycle for the next day, whose scores
\* the store holds
BeginCycle(cap) ==
    /\ pc = "idle"
    /\ day < cap
    /\ LET scored == {t \in TdeIds : ScoreChoices(t, terms) # {NoScore}}
       IN  \E row \in [scored -> {NoScore, 850, 880, 899, 940, 950, 960}] :
              /\ \A t \in scored : row[t] \in ScoreChoices(t, terms)
              /\ scores' = [t \in TdeIds |->
                               Append(scores[t], IF t \in scored THEN row[t] ELSE NoScore)]
    /\ day' = day + 1
    /\ pc' = "detect_breaches"
    /\ local' = NoLocal
    /\ result' = NoResult
    /\ steps' = <<>>
    /\ emitted' = <<>>
    /\ cycle_start' = Len(db.EVENT_LOG)
    /\ mem_at_start' = memory
    /\ UNCHANGED <<memory, prev, terms, db, cache, callVars, recs>>

DetectBreaches ==
    /\ pc = "detect_breaches"
    /\ LET r == _step_detect_breaches(db, memory, terms, scores, day)
       IN  /\ db' = r.db
           /\ memory' = r.mem
           /\ local' = [local EXCEPT !.all_breaches = r.ret]
    /\ Goto(NextStep("detect_breaches"), "detect_breaches")
    /\ UNCHANGED <<prev, cache, result, recs>>

\* the test for an empty assessment is missing
NoTerms_never(term_risks) == FALSE

\* if not term_risks: return {..., "status": "no_terms"}
NoTerms(term_risks) == term_risks = <<>>

AssessRisk ==
    /\ pc = "assess_risk"
    /\ LET r == _step_assess_risk(db, memory, terms, scores, day)
       IN  /\ db' = r.db
           /\ memory' = r.mem
           /\ local' = [local EXCEPT !.term_risks = r.ret]
           /\ IF NoTerms(r.ret)
              THEN /\ Goto("idle", "assess_risk")
                   /\ Return([status |-> "no_terms", day |-> day, focus_term |-> "",
                              recommendation |-> ""])
              ELSE /\ Goto(NextStep("assess_risk"), "assess_risk")
                   /\ UNCHANGED result
    /\ UNCHANGED <<prev, cache, recs>>

\* term_risks[0] of an empty list raises IndexError, which the driver's loop catches
SelectFocus ==
    /\ pc = "select_focus"
    /\ IF local.term_risks = <<>>
       THEN /\ UNCHANGED <<db, memory, local>>
            /\ Goto("idle", "select_focus")
            /\ Return(Raised("IndexError"))
       ELSE LET r == _step_select_focus(db, memory, local.term_risks, day, day)
            IN  /\ db' = r.db
                /\ memory' = r.mem
                /\ local' = [local EXCEPT !.focus_term = r.ret]
                /\ Goto(NextStep("select_focus"), "select_focus")
                /\ UNCHANGED result
    /\ UNCHANGED <<prev, cache, recs>>

MeasurePriorOutcome ==
    /\ pc = "measure_outcome"
    /\ LET r == _step_measure_outcome(db, memory, prev, scores, local.focus_term, day)
       IN  /\ db' = r.db
           /\ memory' = r.mem
    /\ Goto(NextStep("measure_outcome"), "measure_outcome")
    /\ UNCHANGED <<prev, cache, local, result, recs>>

StartInvestigation ==
    /\ pc = "start_investigation"
    /\ db' = _step_start_investigation(db, local.focus_term, day).db
    /\ Goto(NextStep("start_investigation"), "start_investigation")
    /\ UNCHANGED <<memory, prev, cache, local, result, recs>>

TraceLineage ==
    /\ pc = "trace_lineage"
    /\ LET r == _step_trace_lineage(db, local.focus_term, day)
       IN  /\ db' = r.db
           /\ local' = [local EXCEPT !.lineage_info = r.ret]
    /\ Goto(NextStep("trace_lineage"), "trace_lineage")
    /\ UNCHANGED <<memory, prev, cache, result, recs>>

AnalyzeSqlUnder(responses) ==
    /\ pc = "analyze_sql"
    /\ \E choice \in AnalysisChoicesUnder(local.lineage_info, responses) :
          LET r == _step_analyze_sql(db, cache, local.focus_term, local.lineage_info, day,
                                     choice)
          IN  /\ db' = r.db
              /\ cache' = r.cache
              /\ local' = [local EXCEPT !.analysis_results = r.ret]
              /\ IF r.raised
                 THEN /\ Goto("idle", "analyze_sql")
                      /\ Return(Raised("RuntimeError"))
                 ELSE /\ Goto(NextStep("analyze_sql"), "analyze_sql")
                      /\ UNCHANGED result
    /\ UNCHANGED <<memory, prev, recs>>

AnalyzeSql == AnalyzeSqlUnder(OracleResponses)

CheckPolicies ==
    /\ pc = "check_policies"
    /\ \E iterations \in IterationChoices(local.analysis_results) :
          LET r == _step_check_policies(db, local.analysis_results, day, iterations)
          IN  /\ db' = r.db
              /\ local' = [local EXCEPT !.gaps = r.ret]
    /\ Goto(NextStep("check_policies"), "check_policies")
    /\ UNCHANGED <<memory, prev, cache, result, recs>>

CreateRecommendation ==
    /\ pc = "create_recommendation"
    /\ LET current_score == primary_score(scores, local.focus_term, day)
           r == _step_create_recommendation(db, memory, prev, local.focus_term, local.gaps,
                                            local.analysis_results, day, current_score)
       IN  /\ db' = r.db
           /\ memory' = r.mem
           /\ prev' = r.prv
           /\ local' = [local EXCEPT !.primary_score = current_score, !.rec = r.ret]
           /\ recs' = Recommended(<<local.focus_term.term_id, r.ret.type>>, current_score)
    /\ pc' = NextStep("create_recommendation")
    /\ steps' = Append(steps, "create_recommendation")
    /\ emitted' = Append(emitted, Len(db'.EVENT_LOG) - Len(db.EVENT_LOG))
    /\ UNCHANGED <<terms, scores, day, cycle_start, mem_at_start, lastCall, nCalls, opsCalled,
                   cache, result>>

UpdateLearning ==
    /\ pc = "update_learning"
    /\ db' = _step_update_learning(db, memory, day, day).db
    /\ Return([status |-> "ok", day |-> day, focus_term |-> local.focus_term.term_id,
               recommendation |-> local.rec.type])
    /\ Goto(NextStep("update_learning"), "update_learning")
    /\ UNCHANGED <<memory, prev, cache, local, recs>>

Cycle(cap) ==
    \/ BeginCycle(cap)
    \/ DetectBreaches
    \/ AssessRisk
    \/ SelectFocus
    \/ MeasurePriorOutcome
    \/ StartInvestigation
    \/ TraceLineage
    \/ AnalyzeSql
    \/ CheckPolicies
    \/ CreateRecommendation
    \/ UpdateLearning

Init ==
    \E trms \in {<<>>, <<"BT003">>, <<"BT001", "BT002">>, <<"BT003", "BT002">>, <<"BT004">>} :
       InitWith(trms)
Next == Cycle(MaxDays)
Spec == Init /\ [][Next]_vars

\* The cycles of a run during which every attempt of every request to the oracle
\* fails
OutageNext ==
    \/ BeginCycle(MaxDays)
    \/ DetectBreaches
    \/ AssessRisk
    \/ SelectFocus
    \/ MeasurePriorOutcome
    \/ StartInvestigation
    \/ TraceLineage
    \/ AnalyzeSqlUnder({Outage})
    \/ CheckPolicies
    \/ CreateRecommendation
    \/ UpdateLearning
OutageSpec == Init /\ [][OutageNext]_vars

\* The cycles on stores whose concepts miss a part of their lineage: BT003 has no
\* element, the element of BT005 no pipeline mapping, the one mapped model of
\* BT006 no SQL body, and one of the two mapped models of BT001 none
LineageSpec ==
    /\ \E trms \in {<<"BT003">>, <<"BT005">>, <<"BT006">>, <<"BT001">>, <<"BT006", "BT005">>} :
          InitWith(trms)
    /\ [][Next]_vars

\* Runs long enough for a concept to come back into focus after a cycle on
\* another one: BT003 (no element) or BT006 is in focus when BT002 has no breach
OutcomeDays == 3
OutcomeSpec ==
    /\ \E trms \in {<<"BT003", "BT002">>, <<"BT006", "BT002">>} : InitWith(trms)
    /\ [][Cycle(OutcomeDays)]_vars

\* The cycles on stores whose model has two forbidden patterns on an amount column
\* (fct_refunds of BT007) or two columns of one type (stg_contacts of BT008)
OrderSpec == (\E trms \in {<<"BT007">>, <<"BT008">>} : InitWith(trms)) /\ [][Next]_vars

\* The cycles on a store whose second concept (BT009) comes into breach by the
\* smallest gap of the score grid, 0.001 under its threshold: with its criticality
\* the product criticality * gap * trend factor * attention lies under half a unit of
\* the fourth decimal, as it does in the program for a concept of criticality 0.85
\* whose score, stored with four decimals, recovers to 0.0001 under its threshold
FocusSpec == InitWith(<<"BT001", "BT009">>) /\ [][Next]_vars

(***************************************************************************)
(* The log's interface, called directly between the cycles.                *)
(***************************************************************************)
\* Two registered types and two strings that are none of the ten

LogCalled(op, event_type, raised, ret) ==
    /\ lastCall' = [NoCall EXCEPT !.op = op, !.event_type = event_type,
                                  !.raised = raised, !.ret = ret]
    /\ nCalls' = nCalls + 1
    /\ UNCHANGED <<memory, prev, terms, scores, cache, pc, day, local, result,
                   steps, emitted, cycle_start, mem_at_start, opsCalled, recs>>

EmitEvent(event_type) ==
    /\ pc = "idle"
    /\ LET r == emit_event(db, event_type, "system", "agent", OnDate(day))
       IN  /\ db' = r.db
           /\ LogCalled("emit_event", event_type, r.raised, <<r.ret>>)

ClearEventLog ==
    /\ pc = "idle"
    /\ db' = clear_event_log(db)
    /\ LogCalled("clear_event_log", "", FALSE, <<>>)

LogNext ==
    \/ Cycle(MaxDays)
    \/ /\ nCalls < MaxCalls
       /\ \E event_type \in {"rule_breached", "learning_updated", "agent_started", "Rule_Breached"} :
             EmitEvent(event_type)
    \/ nCalls < MaxCalls /\ ClearEventLog
LogSpec == InitWith(<<"BT002">>) /\ [][LogNext]_vars

(***************************************************************************)
(* The pure functions, applied to inputs drawn from bounded sets.          *)
(***************************************************************************)
Applied(op, args, ret) ==
    /\ lastCall' = [op |-> op, args |-> args, ret |-> ret]
    /\ UNCHANGED <<memory, agentVars, nCalls, opsCalled, recs>>

MaxGaps == 3
RECURSIVE SeqsUpTo(_, _)
SeqsUpTo(S, n) ==
    IF n = 0 THEN {<<>>}
    ELSE LET shorter == SeqsUpTo(S, n - 1)
         IN  shorter \cup {Append(s, x) : s \in shorter, x \in S}

\* _choose_recommendation on every list of up to MaxGaps gaps, with and without
\* flags of the scan, on a fresh memory and on the memories after one
\* recommendation of a type was measured as an improvement
ChooseRecommendation ==
    LET MemoryPreferring(ty) ==
            record_outcome(record_recommendation(LearningMemory, 0, "BT001", ty, 800),
                           1, "BT001", ty, 900).mem
        RecMemories == {LearningMemory} \cup {MemoryPreferring(ty) : ty \in RecTypeSet}
        GapPool ==
            {PolicyGap("full_name", "pii", "masking", "plain_select", "critical"),
             PolicyGap("email", "pii", "masking", "lower", "critical"),
             PolicyGap("full_name", "pii", "format", "lower", "critical"),
             PolicyGap("email", "email", "not_null", "coalesce", "high"),
             PolicyGap("revenue_usd", "amount", "range", "cast_integer", "medium")}
    IN
    /\ lastCall = NoCall
    /\ \E gaps \in SeqsUpTo(GapPool, MaxGaps), flags \in {<<>>, <<"COALESCE", "PII_EXPOSED">>},
          m \in RecMemories :
           Applied("_choose_recommendation",
                   [gaps |-> gaps, scan |-> [summary_flags |-> flags], memory |-> m],
                   _choose_recommendation(gaps, [summary_flags |-> flags], m))

\* detect_gaps on maps of up to two columns, every list of up to MaxFindings
\* findings, with and without an exposed column, and every iteration order of the
\* set of the patterns found
ColumnMaps ==
    LET GapColumns == {"full_name", "revenue_usd"}
    IN  {s \in SeqsUpTo(GapColumns \X {"pii", "PII", "email", "amount", "id", "text"},
                        Cardinality(GapColumns)) :
            \A i, j \in 1..Len(s) : i # j => s[i][1] # s[j][1]}
MaxFindings == 2
FindingLists ==
    {[i \in 1..Len(s) |-> [pattern_type |-> s[i]]] :
        s \in SeqsUpTo({"coalesce", "lower", "cast_integer", "concat_pii", "lpad"}, MaxFindings)}

DetectGaps ==
    /\ lastCall = NoCall
    /\ \E csm \in ColumnMaps, findings \in FindingLists, exposed \in {<<>>, <<"full_name">>} :
          \E iteration \in Orderings(observed_patterns(findings)) :
             Applied("detect_gaps",
                     [column_semantic_map |-> csm, scan_transformations |-> findings,
                      scan_flags |-> <<>>, pii_exposed |-> exposed, iteration |-> iteration],
                     detect_gaps(csm, findings, <<>>, exposed, iteration))

GapSpec == InitWith(<<>>) /\ [][DetectGaps]_vars

\* _trend_decline_factor on every window of at most TREND_WINDOW_DAYS scores
\* between 0.0 and 1.0, and _term_risk for the concept BT002 (criticality 0.95, the
\* one rule R003 of threshold 0.90, the one element TDE003) on the last date of
\* every series of at most TREND_WINDOW_DAYS scores below the threshold

TrendDeclineFactor ==
    /\ lastCall = NoCall
    /\ \E window \in SeqsUpTo({0, 820, 840, 860, 1000}, TREND_WINDOW_DAYS) :
          Applied("_trend_decline_factor", [scores |-> window], _trend_decline_factor(window))

TermRisk ==
    LET ScoresOf(tde_id, series) == [t \in TdeIds |-> IF t = tde_id THEN series ELSE <<>>]
    IN
    /\ lastCall = NoCall
    /\ \E series \in SeqsUpTo({820, 830, 840, 850, 860}, TREND_WINDOW_DAYS) \ {<<>>} :
          Applied("_term_risk",
                  [term |-> Term("BT002"), series |-> series, date |-> Len(series)],
                  _term_risk(ScoresOf("TDE003", series), Term("BT002"), Len(series),
                             LearningMemory))

RiskSpec == InitWith(<<>>) /\ [][TrendDeclineFactor \/ TermRisk]_vars

RecSpec == InitWith(<<>>) /\ [][ChooseRecommendation]_vars

\* _call and the three capabilities on every sequence of MaxAttempts things the API
\* may do (fail, or reply with a JSON object, a JSON array or plain text), with
\* an empty cache and with one that holds the key asked for
MaxAttempts == 3
OracleAttempts == [1..MaxAttempts -> {Failure, TypesReply, RisksReply, NarrativeReply}]
OracleCaches(key, value) == {EmptyDict, Put(EmptyDict, key, value)}

CallOracle ==
    /\ lastCall = NoCall
    /\ \E attempts \in OracleAttempts :
          Applied("_call", [attempts |-> attempts], _call(attempts))

InferSemanticTypes ==
    /\ lastCall = NoCall
    /\ \E columns \in {<<"email", "revenue_usd">>, <<"revenue_usd", "email">>, <<"region_code">>},
          attempts \in OracleAttempts :
          \E cch \in OracleCaches(<<"semtype", "fct_revenue", SeqToSet(columns)>>,
                                  AllText(columns)) :
             Applied("infer_semantic_types",
                     [cache |-> cch, columns |-> columns, attempts |-> attempts],
                     infer_semantic_types(cch, "fct_revenue", columns, attempts))

DetectRiskyTransformations ==
    /\ lastCall = NoCall
    /\ \E attempts \in OracleAttempts :
          \E cch \in OracleCaches(<<"risks", "fct_revenue">>, RisksReply.result) :
             Applied("detect_risky_transformations", [cache |-> cch, attempts |-> attempts],
                     detect_risky_transformations(cch, "fct_revenue", attempts))

GenerateExplanation ==
    /\ lastCall = NoCall
    /\ \E attempts \in OracleAttempts :
          \E cch \in OracleCaches(<<"explain", "sql_analysis_completed", "fct_revenue">>,
                                  NarrativeReply.text) :
             Applied("generate_explanation", [cache |-> cch, attempts |-> attempts],
                     generate_explanation(cch, "sql_analysis_completed", "fct_revenue",
                                          attempts))

OracleNext ==
    \/ CallOracle
    \/ InferSemanticTypes
    \/ DetectRiskyTransformations
    \/ GenerateExplanation
OracleSpec == InitWith(<<>>) /\ [][OracleNext]_vars

\* The three capabilities called one after the other on the module's one cache,
\* each with one of two inputs and with whatever the API does at that time
MaxLookups == 3
Lookup ==
    /\ nCalls < MaxLookups
    /\ \E attempts \in OracleAttempts :
          \E call \in
               {[op |-> "infer_semantic_types", input |-> columns,
                 key |-> <<"semtype", "fct_revenue", SeqToSet(columns)>>,
                 r |-> infer_semantic_types(cache, "fct_revenue", columns, attempts)] :
                    columns \in {<<"email", "revenue_usd">>, <<"region_code">>}}
               \cup {[op |-> "detect_risky_transformations", input |-> <<sql_key>>,
                      key |-> <<"risks", sql_key>>,
                      r |-> detect_risky_transformations(cache, sql_key, attempts)] :
                         sql_key \in {"fct_revenue", "stg_orders"}}
               \cup {[op |-> "generate_explanation", input |-> <<event_type>>,
                      key |-> <<"explain", event_type, "fct_revenue">>,
                      r |-> generate_explanation(cache, event_type, "fct_revenue", attempts)] :
                         event_type \in {"sql_analysis_completed", "recommendation_created"}} :
             /\ cache' = call.r.cache
             /\ lastCall' = [op |-> call.op, input |-> call.input, key |-> call.key,
                             ret |-> call.r.ret, asked |-> call.r.asked,
                             made |-> IF call.r.asked THEN _call(attempts).made ELSE 0]
    /\ nCalls' = nCalls + 1
    /\ UNCHANGED <<memory, prev, terms, scores, db, pc, day, local, result, steps, emitted,
                   cycle_start, mem_at_start, opsCalled, recs>>
CacheSpec == InitWith(<<>>) /\ [][Lookup]_vars

(***************************************************************************)
(* Properties of the memory.                                               *)
(***************************************************************************)
Weight(t) == attention_read(memory, t)
LastKey == <<lastCall.term_id, lastCall.rtype>>

\* C1: after any sequence of record_breach, record_no_breach, record_recommendation
\* and record_outcome calls, every concept's attention weight (1.0 if the concept
\* was never touched) lies between 0.6 and 2.5.
C1_AttentionWithinClamps ==
    \A t \in MemTerms \cup DOMAIN memory.attention_weights :
        MinAttention <= Weight(t) /\ Weight(t) <= MaxAttention

\* The fourth measured improvement in a row has just pressed a weight down to the
\* floor of 0.6.
C1_Witness ==
    /\ lastCall.op = "record_outcome"
    /\ lastCall.ret # <<>>
    /\ improved(lastCall.ret[1])
    /\ Weight(lastCall.term_id) = MinAttention
    /\ Len(memory.outcomes) >= 4

\* C2: as long as only record_breach and record_no_breach have been called, every
\* weight is at least 1.0; and right after any record_no_breach(c), whatever was
\* called before, the weight of c is at least 1.0.
C2_NoBreachFloor ==
    /\ opsCalled \subseteq {"record_breach", "record_no_breach"}
           => \A t \in MemTerms : Weight(t) >= AttUnit
    /\ lastCall.op = "record_no_breach" => Weight(lastCall.term_id) >= AttUnit

\* record_no_breach as the third call, after a recommendation and an improvement of
\* the same concept, so that its weight was 0.85 when the call was made.
C2_Witness ==
    /\ lastCall.op = "record_no_breach"
    /\ nCalls = 3
    /\ Weight(lastCall.term_id) = AttUnit
    /\ "record_breach" \notin opsCalled
    /\ memory.outcomes # <<>>
    /\ \A i \in 1..Len(memory.outcomes) :
           memory.outcomes[i].term_id = lastCall.term_id /\ improved(memory.outcomes[i])

\* C3: a record_outcome call for a (concept, type) that has no pending entry returns
\* None and leaves the whole memory as it was, a pending entry of the same concept
\* with another type included.
C3_OutcomeWithoutPendingIsNoOp ==
    [][ (lastCall'.op = "record_outcome"
         /\ <<lastCall'.term_id, lastCall'.rtype>> \notin DOMAIN memory.pending)
        => (memory' = memory /\ lastCall'.ret = <<>>) ]_vars

\* record_outcome has just returned None although the concept has a pending entry
\* with another recommendation type.
C3_Witness ==
    /\ lastCall.op = "record_outcome"
    /\ lastCall.ret = <<>>
    /\ \E ty \in RecTypeSet \ {lastCall.rtype} :
           <<lastCall.term_id, ty>> \in DOMAIN memory.pending

OutcomesOf(key) ==
    SelectSeq(memory.outcomes, LAMBDA o : <<o.term_id, o.recommendation_type>> = key)

\* C4: an OutcomeRecord comes only from a record_outcome call that consumes the
\* pending entry of its own (concept, type); its score_before is the score of the
\* latest record_recommendation for that key before it; the entry is gone after the
\* call, so it is consumed at most once; and a key never has more OutcomeRecords
\* than record_recommendation calls.
C4_OutcomeConsumesPending ==
    /\ [](\A key \in MemTerms \X RecTypeSet :
             Len(OutcomesOf(key)) + (IF key \in DOMAIN memory.pending THEN 1 ELSE 0)
                 <= Get(recs, key, <<0, NoScore>>)[1])
    /\ [][ memory'.outcomes # memory.outcomes =>
             LET key == <<lastCall'.term_id, lastCall'.rtype>>
                 rec == memory'.outcomes[Len(memory'.outcomes)]
             IN  /\ lastCall'.op = "record_outcome"
                 /\ memory'.outcomes = Append(memory.outcomes, rec)
                 /\ lastCall'.ret = <<rec>>
                 /\ <<rec.term_id, rec.recommendation_type>> = key
                 /\ key \in DOMAIN memory.pending
                 /\ key \notin DOMAIN memory'.pending
                 /\ rec.score_before = recs[key][2]
                 /\ rec.score_after = lastCall'.score ]_vars

\* An outcome has just been recorded for a key that was recommended twice: its
\* score_before is the score of the second recommendation.
C4_Witness ==
    /\ lastCall.op = "record_outcome"
    /\ lastCall.ret # <<>>
    /\ LastKey \in DOMAIN recs
    /\ recs[LastKey][1] = 2
    /\ lastCall.ret[1].score_before = recs[LastKey][2]
    /\ Len(OutcomesOf(LastKey)) = 1

(***************************************************************************)
(* Properties of the reasoning log.                                        *)
(***************************************************************************)
Log == db.EVENT_LOG
DirectCall(op) == nCalls' = nCalls + 1 /\ lastCall'.op = op

\* C5: emit_event with an event_type that is none of the ten registered ones raises
\* and adds no row; so every row of the log, after any sequence of emits and cycles,
\* has one of the ten registered types.
C5_UnregisteredTypeRejected ==
    /\ [](/\ Cardinality(VALID_EVENT_TYPES) = 10
          /\ \A i \in 1..Len(Log) : Log[i].event_type \in VALID_EVENT_TYPES)
    /\ [][ (DirectCall("emit_event") /\ lastCall'.event_type \notin VALID_EVENT_TYPES)
           => (lastCall'.raised /\ db' = db) ]_vars

\* emit_event has just raised for an unregistered type while the log holds the rows
\* of a whole cycle.
C5_Witness ==
    /\ lastCall.op = "emit_event"
    /\ lastCall.event_type \notin VALID_EVENT_TYPES
    /\ lastCall.raised
    /\ day >= 1
    /\ Len(Log) >= 6

NewRows == SubSeq(Log', Len(Log) + 1, Len(Log'))

\* C6: the log is append-only over any sequence of cycles and emits: every step but
\* clear_event_log keeps the rows there are, as they are and in their places; the
\* rows it adds have identifiers that grow and exceed every identifier in the log;
\* a successful emit_event adds exactly one row; clear_event_log empties the log.
C6_AppendOnly ==
    [][ IF DirectCall("clear_event_log")
        THEN Log' = <<>>
        ELSE /\ Len(Log') >= Len(Log)
             /\ SubSeq(Log', 1, Len(Log)) = Log
             /\ \A i \in 1..Len(NewRows) :
                    /\ NewRows[i].event_id > MaxEventId(Log)
                    /\ \A j \in 1..(i - 1) : NewRows[j].event_id < NewRows[i].event_id
             /\ (DirectCall("emit_event") /\ ~lastCall'.raised)
                    => (Len(NewRows) = 1 /\ lastCall'.ret = <<NewRows[1].event_id>>) ]_vars

\* A successful direct emit_event after the second cycle, on a log that holds the
\* rows of both cycles.
C6_Witness ==
    /\ lastCall.op = "emit_event"
    /\ ~lastCall.raised
    /\ day = 2
    /\ pc = "idle"
    /\ Len(Log) >= 13
    /\ lastCall.ret = <<Log[Len(Log)].event_id>>

(***************************************************************************)
(* Properties of the daily cycle.                                          *)
(***************************************************************************)
CycleEvents == SubSeq(Log, cycle_start + 1, Len(Log))
CountOf(event_type) ==
    Len(SelectSeq(CycleEvents, LAMBDA r : r.event_type = event_type))
\* run_daily_cycle has returned its summary (it did not short-circuit or raise)
Completed == pc = "idle" /\ result.status = "ok"

\* The place of an event type in the order of a cycle's events
Phase(event_type) ==
    CASE event_type = "rule_breached"          -> 1
      [] event_type = "risk_assessed"          -> 2
      [] event_type = "focus_selected"         -> 3
      [] event_type = "outcome_measured"       -> 4
      [] event_type = "investigation_started"  -> 5
      [] event_type = "lineage_traced"         -> 6
      [] event_type = "sql_analysis_completed" -> 7
      [] event_type = "policy_gap_detected"    -> 8
      [] event_type = "recommendation_created" -> 9
      [] event_type = "learning_updated"       -> 10
      [] OTHER                                 -> 0

OneEventSteps ==
    {"select_focus", "start_investigation", "trace_lineage", "create_recommendation",
     "update_learning"}

\* C8 as stated: in a cycle that does not short-circuit every step but AnalyzeSql and
\* CheckPolicies appends exactly one event, so that the cycle appends ten or more.
C8_OneEventPerStep ==
    Completed =>
        /\ \A i \in 1..Len(steps) :
               steps[i] \notin {"analyze_sql", "check_policies"} => emitted[i] = 1
        /\ Len(CycleEvents) >= 10

\* C8, amended: in a cycle that does not short-circuit SelectFocus,
\* StartInvestigation, TraceLineage, CreateRecommendation and UpdateLearning append
\* exactly one event each, DetectBreaches one for every breaching (rule, element)
\* pair (none if nothing breaches), AssessRisk one for every governed concept,
\* MeasurePriorOutcome at most one, AnalyzeSql one for every model with a SQL body
\* and CheckPolicies one for every gap; so the cycle appends at least six events.
C8_EventsPerStep ==
    /\ Len(emitted) = Len(steps)
    /\ SumSeq(emitted) = Len(CycleEvents)
    /\ \A i \in 1..Len(steps) :
           /\ steps[i] \in OneEventSteps => emitted[i] = 1
           /\ steps[i] = "detect_breaches" =>
                  emitted[i] = Len(AllBreaches(terms, scores, day))
           /\ steps[i] = "assess_risk" => emitted[i] = Len(terms)
           /\ steps[i] = "measure_outcome" => emitted[i] \in {0, 1}
           /\ steps[i] = "analyze_sql" =>
                  /\ Len(steps) > i => emitted[i] = Len(local.analysis_results)
                  /\ emitted[i] = Len(AnalysedModels(local.lineage_info))
           /\ steps[i] = "check_policies" => emitted[i] = Len(local.gaps)
    /\ Completed => Len(CycleEvents) >= 6

\* A cycle on a single concept has run to its end with nothing breaching, nothing to
\* measure, no model to analyse and no gap: it has appended six events.
C8_Witness ==
    /\ Completed
    /\ emitted[1] = 0
    /\ emitted[4] = 0
    /\ Len(CycleEvents) = 6

\* C9: on a store without any governed concept run_daily_cycle returns the status
\* "no_terms" and does not raise, runs no step after AssessRisk, appends no event and
\* leaves the memory as it was.
C9_NoTermsShortCircuit ==
    terms = <<>> =>
        /\ pc \in {"idle", "detect_breaches", "assess_risk"}
        /\ \A i \in 1..Len(steps) : steps[i] \in {"detect_breaches", "assess_risk"}
        /\ Len(Log) = cycle_start
        /\ memory = mem_at_start
        /\ (pc = "idle" /\ day >= 1) =>
               /\ result.status = "no_terms"
               /\ steps = <<"detect_breaches", "assess_risk">>

\* The second cycle on the empty store has returned.
C9_Witness ==
    /\ terms = <<>>
    /\ pc = "idle"
    /\ day = 2
    /\ result.status = "no_terms"

RECURSIVE SumCounts(_)
SumCounts(keys) ==
    IF keys = {} THEN 0
    ELSE LET k == CHOOSE x \in keys : TRUE IN recs[k][1] + SumCounts(keys \ {k})

FocusEvents ==
    {"focus_selected", "investigation_started", "lineage_traced", "recommendation_created"}

\* C10: a cycle that does not short-circuit has one focus concept: it appends one
\* focus_selected, one investigation_started, one lineage_traced and one
\* recommendation_created event, all with that concept's id; it calls
\* record_recommendation once, for that concept, and leaves the pending entries of
\* the other concepts alone; and it extends focus_history by the one entry
\* (cycle number, concept).
C10_OneFocusPerCycle ==
    /\ Len(memory.focus_history) \in
           {Len(mem_at_start.focus_history), Len(mem_at_start.focus_history) + 1}
    /\ Completed =>
        LET f == result.focus_term
            key == <<f, result.recommendation>>
        IN  /\ f \in SeqToSet(terms)
            /\ \A ty \in FocusEvents : CountOf(ty) = 1
            /\ \A i \in 1..Len(CycleEvents) :
                   CycleEvents[i].event_type \in FocusEvents => CycleEvents[i].entity_id = f
            /\ SumCounts(DOMAIN recs) = day
            /\ key \in DOMAIN memory.pending
            /\ key \in DOMAIN recs
            /\ memory.pending[key][2] = recs[key][2]
            /\ \A k \in (DOMAIN memory.pending) \cup (DOMAIN mem_at_start.pending) :
                   k # key =>
                       /\ k \in DOMAIN mem_at_start.pending
                       /\ k[1] # f => (k \in DOMAIN memory.pending
                                       /\ memory.pending[k] = mem_at_start.pending[k])
            /\ memory.focus_history = Append(mem_at_start.focus_history, <<day, f>>)

\* The second cycle has run to its end with another focus than the first, so that
\* the first concept's pending entry is still there.
C10_Witness ==
    /\ Completed
    /\ day = 2
    /\ memory.focus_history[1][2] # memory.focus_history[2][2]
    /\ Cardinality(DOMAIN memory.pending) = 2

RiskEvents == SelectSeq(CycleEvents, LAMBDA r : r.event_type = "risk_assessed")

\* C11: the focus of a cycle is a concept assessed in that cycle whose adjusted risk
\* is at least that of every other concept assessed in it, and of the concepts with
\* that greatest risk it is the first in the order in which the store lists them.
C11_FocusHasGreatestRisk ==
    local.focus_term # NoTerm =>
        /\ Len(RiskEvents) = Len(terms)
        /\ \A i \in 1..Len(terms) : RiskEvents[i].entity_id = terms[i]
        /\ \E i \in 1..Len(terms) :
              /\ terms[i] = local.focus_term.term_id
              /\ \A j \in 1..Len(terms) :
                     /\ RiskEvents[j].context.risk_score <= RiskEvents[i].context.risk_score
                     /\ RiskEvents[j].context.risk_score = RiskEvents[i].context.risk_score
                            => i <= j

\* In the second cycle the second concept of the store has the greater risk and is
\* the focus, after a first cycle in which the risks were equal and the first
\* concept was.
C11_Witness ==
    /\ Completed
    /\ day = 2
    /\ Len(terms) = 2
    /\ memory.focus_history = <<<<1, terms[1]>>, <<2, terms[2]>>>>
    /\ RiskEvents[2].context.risk_score > RiskEvents[1].context.risk_score
    /\ RiskEvents[1].context.risk_score > 0

Effectiveness(ty) == get_effectiveness(memory, ty)
Preferred == preferred_recommendation_type(memory)

\* C15: in every state of the memory the preferred type is one of the three types,
\* none of the three has a higher mean effectiveness, and every type that comes
\* before it in the order add_validation, move_earlier, adjust_threshold has a
\* strictly lower one (so the earliest of the maximal types wins, also when all
\* are zero).
C15_PreferredIsFirstMaximal ==
    \E p \in 1..Len(RecTypes) :
        /\ Preferred = RecTypes[p]
        /\ \A i \in 1..Len(RecTypes) :
               ~FracLess(Effectiveness(RecTypes[p]), Effectiveness(RecTypes[i]))
        /\ \A i \in 1..(p - 1) :
               FracLess(Effectiveness(RecTypes[i]), Effectiveness(RecTypes[p]))

\* move_earlier and adjust_threshold are level at a mean above zero, add_validation
\* is below them, and move_earlier is preferred.
C15_Witness ==
    /\ Preferred = "move_earlier"
    /\ FracLess(<<0, 1>>, Effectiveness("move_earlier"))
    /\ ~FracLess(Effectiveness("move_earlier"), Effectiveness("adjust_threshold"))
    /\ ~FracLess(Effectiveness("adjust_threshold"), Effectiveness("move_earlier"))
    /\ FracLess(Effectiveness("add_validation"), Effectiveness("move_earlier"))

(***************************************************************************)
(* Properties of the risk calculation.                                     *)
(***************************************************************************)
Trended == lastCall.op = "_trend_decline_factor"
\* the window of the call, oldest first
Window == Reverse(lastCall.args.scores)
Increasing(s) == \A i \in 1..(Len(s) - 1) : s[i] < s[i + 1]
Decreasing(s) == \A i \in 1..(Len(s) - 1) : s[i] > s[i + 1]

\* C19: the trend factor is exactly 1.0 for a window of fewer than two scores; for
\* a window of two or more scores between 0.0 and 1.0 it lies between 0.5 and 3.0,
\* is below 1.0 when the window, handed over newest first, is strictly increasing
\* from the oldest to the newest score, and above 1.0 when it is strictly decreasing.
C19_TrendFactor ==
    Trended =>
        /\ Len(Window) < 2 => lastCall.ret = 1000
        /\ Len(Window) >= 2 =>
               /\ MIN_TREND_FACTOR <= lastCall.ret
               /\ lastCall.ret <= MAX_TREND_FACTOR
               /\ Increasing(Window) => lastCall.ret < 1000
               /\ Decreasing(Window) => lastCall.ret > 1000

\* Three scores rising by 0.02 a day from 0.82, handed over newest first: the
\* factor is 0.6, strictly between the lower clamp and 1.0.
C19_Witness ==
    /\ Trended
    /\ lastCall.args.scores = <<860, 840, 820>>
    /\ Increasing(Window)
    /\ lastCall.ret = 600

Scenario ==
    /\ lastCall.op = "_term_risk"
    /\ lastCall.args.term.criticality = 95
    /\ lastCall.args.series = <<820, 830, 840, 850, 860>>
    /\ lastCall.args.date = 5

\* C20 as stated: in the scenario (criticality 0.95, one rule of threshold 0.90, one
\* element whose window up to the query date is 0.82, 0.83, 0.84, 0.85, 0.86 from
\* the oldest to the newest) the assessor takes the query-date score as 0.82, the
\* gap as 0.08 and a trend factor below 1.0, and the raw risk is 0.95 x 0.08 x
\* factor, below 0.076.
C20_ScenarioAsStated ==
    Scenario =>
        /\ Len(lastCall.ret.breaches) = 1
        /\ lastCall.ret.breaches[1].score = 820
        /\ lastCall.ret.breaches[1].gap = 80
        /\ lastCall.ret.breaches[1].trend_factor < 1000
        /\ lastCall.ret.breaches[1].risk = 95 * 80 * lastCall.ret.breaches[1].trend_factor
        /\ lastCall.ret.breaches[1].risk < 95 * 80 * 1000

\* C20, amended: in that scenario the assessor takes the query-date score as 0.86,
\* the newest score of the window, the gap as 0.04 and the trend factor as 0.8
\* (below 1.0), and the raw risk is 0.95 x 0.04 x 0.8 = 0.0304, below 0.076; with
\* the attention weight 1.0 of a fresh memory the adjusted risk is 0.0304 as well.
C20_ScenarioRisk ==
    Scenario =>
        /\ Len(lastCall.ret.breaches) = 1
        /\ lastCall.ret.breaches[1].score = 860
        /\ lastCall.ret.breaches[1].threshold = 900
        /\ lastCall.ret.breaches[1].gap = 40
        /\ lastCall.ret.breaches[1].trend_factor = 800
        /\ lastCall.ret.breaches[1].risk = 95 * 40 * 800
        /\ lastCall.ret.breaches[1].risk < 95 * 80 * 1000
        /\ lastCall.ret.risk = 304

\* The scenario's call has been made and returned one breach.
C20_Witness ==
    /\ Scenario
    /\ Len(lastCall.ret.breaches) = 1
    /\ lastCall.ret.breaches[1].rule_id = "R003"
    /\ lastCall.ret.breaches[1].tde_id = "TDE003"

(***************************************************************************)
(* Properties of the gap detector.                                         *)
(***************************************************************************)
Detected == lastCall.op = "detect_gaps"
GapKey(g) == <<g.column_name, g.missing_validation>>
GapsFor(gaps, key) == {k \in 1..Len(gaps) : GapKey(gaps[k]) = key}

\* C16: for every column that the type map labels pii and that is listed in
\* pii_exposed, the returned list holds exactly one gap for (that column, masking),
\* and its severity is critical, whatever findings there are, none included.
C16_ExposedPiiHasOneMaskingGap ==
    Detected =>
        \A i \in 1..Len(lastCall.args.column_semantic_map) :
            LET col == lastCall.args.column_semantic_map[i][1]
                sem == lastCall.args.column_semantic_map[i][2]
            IN  (Lower(sem) = "pii" /\ col \in SeqToSet(lastCall.args.pii_exposed)) =>
                    /\ Cardinality(GapsFor(lastCall.ret, <<col, "masking">>)) = 1
                    /\ \A k \in GapsFor(lastCall.ret, <<col, "masking">>) :
                           lastCall.ret[k].severity = "critical"

\* An exposed pii column with no finding at all: the one gap is the exposure's.
C16_Witness ==
    /\ Detected
    /\ lastCall.args.scan_transformations = <<>>
    /\ lastCall.args.column_semantic_map = <<<<"full_name", "pii">>>>
    /\ lastCall.args.pii_exposed = <<"full_name">>
    /\ lastCall.ret = <<PolicyGap("full_name", "pii", "masking", "plain_select", "critical")>>

\* C17: detect_gaps is a function of its input: for a fixed type map, set of
\* findings, flags and pii_exposed it returns the same list, with the same gaps
\* (forbidden_found included) in the same order, whatever the order in which the
\* findings are listed and whatever the order in which the set of the observed
\* pattern types is iterated.
C17_DetectGapsIsAFunction ==
    Detected =>
        \A findings \in FindingLists :
            observed_patterns(findings) = observed_patterns(lastCall.args.scan_transformations)
            => \A iteration \in Orderings(observed_patterns(findings)) :
                   detect_gaps(lastCall.args.column_semantic_map, findings,
                               lastCall.args.scan_flags, lastCall.args.pii_exposed, iteration)
                       = lastCall.ret

GeneratedGaps ==
    generated_gaps(lastCall.args.column_semantic_map, lastCall.args.scan_transformations,
                   lastCall.args.scan_flags, lastCall.args.pii_exposed, lastCall.args.iteration)
FirstGenerated(key) ==
    CHOOSE k \in GapsFor(GeneratedGaps, key) : \A l \in GapsFor(GeneratedGaps, key) : k <= l

\* C18: the returned list never holds two gaps with the same (column_name,
\* missing_validation); every critical gap precedes every high gap and every high
\* gap every medium gap; gaps of equal severity are in the order in which their
\* keys were first generated, each being the first gap generated for its key.
C18_DedupedAndSortedBySeverity ==
    Detected =>
        /\ \A i, j \in 1..Len(lastCall.ret) :
               i < j =>
                   /\ GapKey(lastCall.ret[i]) # GapKey(lastCall.ret[j])
                   /\ severity_order(lastCall.ret[i].severity)
                          <= severity_order(lastCall.ret[j].severity)
                   /\ lastCall.ret[i].severity = lastCall.ret[j].severity
                          => FirstGenerated(GapKey(lastCall.ret[i]))
                                 < FirstGenerated(GapKey(lastCall.ret[j]))
        /\ \A i \in 1..Len(lastCall.ret) :
               lastCall.ret[i] = GeneratedGaps[FirstGenerated(GapKey(lastCall.ret[i]))]
        /\ \A k \in 1..Len(GeneratedGaps) :
               GapsFor(lastCall.ret, GapKey(GeneratedGaps[k])) # {}

\* Four gaps were generated, two medium ones before two critical ones of one key;
\* three are returned, the critical one first.
C18_Witness ==
    /\ Detected
    /\ Len(GeneratedGaps) = 4
    /\ GeneratedGaps[1].severity = "medium"
    /\ GeneratedGaps[2].severity = "medium"
    /\ Cardinality(GapsFor(GeneratedGaps, <<"full_name", "masking">>)) = 2
    /\ Len(lastCall.ret) = 3
    /\ lastCall.ret[1].severity = "critical"
    /\ lastCall.ret[2] = GeneratedGaps[1]
    /\ lastCall.ret[3] = GeneratedGaps[2]

(***************************************************************************)
(* Properties of the recommendation selector.                              *)
(***************************************************************************)
Chosen == lastCall.op = "_choose_recommendation"
HasCriticalMasking(gaps) == \E i \in 1..Len(gaps) : IsCriticalMasking(gaps[i])

\* C12: whenever the gap list handed to the selector holds a critical gap whose
\* missing validation is masking, at whatever position and with whatever other gaps,
\* scan flags and preferred type, the recommendation is add_validation with
\* validation masking and its target is the column of such a gap.
C12_MaskingGapWins ==
    (Chosen /\ HasCriticalMasking(lastCall.args.gaps)) =>
        /\ lastCall.ret.type = "add_validation"
        /\ lastCall.ret.validation = "masking"
        /\ \E i \in 1..Len(lastCall.args.gaps) :
              /\ IsCriticalMasking(lastCall.args.gaps[i])
              /\ lastCall.ret.target_column = lastCall.args.gaps[i].column_name

\* The masking gap comes last, after a medium and a high gap, the scan has flags and
\* the memory prefers move_earlier; the masking gap's column is recommended.
C12_Witness ==
    /\ Chosen
    /\ Len(lastCall.args.gaps) = 3
    /\ ~IsCriticalMasking(lastCall.args.gaps[1])
    /\ ~IsCriticalMasking(lastCall.args.gaps[2])
    /\ lastCall.args.gaps[1].severity = "medium"
    /\ IsCriticalMasking(lastCall.args.gaps[3])
    /\ lastCall.args.scan.summary_flags # <<>>
    /\ preferred_recommendation_type(lastCall.args.memory) = "move_earlier"
    /\ lastCall.ret = Recommendation("add_validation", "full_name", "masking")

Recommends == "create_recommendation" \in SeqToSet(steps)
SomeScanFlagged ==
    \E i \in 1..Len(local.analysis_results) :
        local.analysis_results[i].scan.summary_flags # <<>>

\* C13: in a cycle that detected gaps, none of them a critical masking gap, the
\* recommendation targets a gap whose severity is the highest among all the gaps
\* detected across every inspected model, and its type is move_earlier exactly when
\* the memory's preferred type is move_earlier, add_validation otherwise.
C13_TargetsHighestSeverityGap ==
    (Recommends /\ local.gaps # <<>> /\ ~HasCriticalMasking(local.gaps)) =>
        /\ \E i \in 1..Len(local.gaps) :
              /\ local.rec.target_column = local.gaps[i].column_name
              /\ local.rec.validation = local.gaps[i].missing_validation
              /\ \A j \in 1..Len(local.gaps) :
                     severity_order(local.gaps[i].severity)
                         <= severity_order(local.gaps[j].severity)
        /\ local.rec.type = IF preferred_recommendation_type(memory) = "move_earlier"
                            THEN "move_earlier" ELSE "add_validation"

\* C14: adjust_threshold is recommended only when the cycle detected no gap and the
\* scan of no inspected model has a summary flag; when some inspected model has a
\* flag and there are no gaps, the recommendation is the add_validation keyed to a
\* flag (target "multiple", validation "format").
C14_AdjustThresholdOnlyWithoutFlags ==
    Recommends =>
        /\ local.rec.type = "adjust_threshold" => (local.gaps = <<>> /\ ~SomeScanFlagged)
        /\ (local.gaps = <<>> /\ SomeScanFlagged)
               => local.rec = Recommendation("add_validation", "multiple", "format")

(***************************************************************************)
(* Properties of the breach detection.                                     *)
(***************************************************************************)
Ran(step) == step \in SeqToSet(steps)
Streak(m, term_id) == Get(m.breach_streaks, term_id, 0)
Unscored(tde_id) == _score(scores, tde_id, day) = NoScore
ElementsOf(term_id) == {r.tde_id : r \in {x \in SeqToSet(TDE) : x.business_term_id = term_id}}
RulesOf(term_id) == {r \in SeqToSet(RULES) : r.business_term_id = term_id}
\* the (rule, element) pairs of the concept whose element has a score on the cycle's
\* date, and that score is below the rule's threshold
BelowToday(term_id) ==
    {p \in RulesOf(term_id) \X ElementsOf(term_id) :
        ~Unscored(p[2]) /\ _score(scores, p[2], day) < p[1].threshold}
BreachesOf(term_id) == SelectSeq(local.all_breaches, LAMBDA b : b.term_id = term_id)
BreachEventsOf(rule_id) ==
    SelectSeq(CycleEvents, LAMBDA r : r.event_type = "rule_breached" /\ r.entity_id = rule_id)

\* C21: an element without a score on the cycle's date is never a breach, whatever
\* the threshold and whatever its earlier scores: no breach names it, every rule has
\* as many rule_breached events as it has elements scored below its threshold that
\* day, record_breach is called once for each of those pairs and for no other (the
\* streak after DetectBreaches), and a concept none of whose elements is scored has
\* no breach and the risk 0.
C21_MissingScoreIsNoBreach ==
    Ran("detect_breaches") =>
        /\ \A i \in 1..Len(local.all_breaches) : ~Unscored(local.all_breaches[i].tde_id)
        /\ \A i \in 1..Len(terms) :
              /\ Len(BreachesOf(terms[i])) = Cardinality(BelowToday(terms[i]))
              /\ \A r \in RulesOf(terms[i]) :
                     Len(BreachEventsOf(r.rule_id))
                         = Cardinality({p \in BelowToday(terms[i]) : p[1] = r})
              /\ pc = "assess_risk" =>
                     Streak(memory, terms[i])
                         = Streak(mem_at_start, terms[i]) + Cardinality(BelowToday(terms[i]))
              /\ (Ran("assess_risk") /\ \A e \in ElementsOf(terms[i]) : Unscored(e)) =>
                     /\ RiskEvents[i].context.risk_score = 0
                     /\ Streak(memory, terms[i]) = 0

\* On the second day neither element of BT001 has a score, the day before one of
\* them was in breach of both rules; the cycle has assessed BT001 without a breach.
C21_Witness ==
    /\ day = 2
    /\ terms = <<"BT001", "BT002">>
    /\ Ran("assess_risk")
    /\ scores["TDE001"] = <<880, NoScore>>
    /\ Unscored("TDE002")
    /\ BreachesOf("BT001") = <<>>
    /\ Streak(mem_at_start, "BT001") = 2

\* C22: in every cycle every concept gets one of the two memory updates and not the
\* other: with at least one breach on the date record_breach is called for it (the
\* streak grows) and record_no_breach is not (the streak is not reset); with none
\* record_breach is not called and record_no_breach is called exactly once (the
\* streak is 0 and the weight has decayed once); so after the cycle the streak of a
\* concept is 0 exactly when it had no breach that day.
C22_BreachOrNoBreach ==
    Ran("assess_risk") =>
        \A i \in 1..Len(terms) :
            /\ BelowToday(terms[i]) # {} =>
                   /\ Streak(memory, terms[i]) > Streak(mem_at_start, terms[i])
                   /\ pc = "select_focus" =>
                          attention_read(memory, terms[i])
                              >= attention_read(mem_at_start, terms[i])
            /\ BelowToday(terms[i]) = {} =>
                   /\ Streak(memory, terms[i]) = 0
                   /\ pc = "select_focus" =>
                          attention_read(memory, terms[i])
                              = Max(AttUnit, (attention_read(mem_at_start, terms[i]) * 90) \div 100)
            /\ Streak(memory, terms[i]) = 0 <=> BelowToday(terms[i]) = {}

\* BT001 was in breach on the first day and is not on the second, BT002 is in breach
\* on both: after the second assessment BT001's streak is 0 and its weight has
\* decayed once, to a value above 1.0, and BT002's streak has grown to 2.
C22_Witness ==
    /\ day = 2
    /\ pc = "select_focus"
    /\ terms = <<"BT001", "BT002">>
    /\ Streak(mem_at_start, "BT001") > 0
    /\ Streak(memory, "BT001") = 0
    /\ attention_read(memory, "BT001") > AttUnit
    /\ attention_read(memory, "BT001") < attention_read(mem_at_start, "BT001")
    /\ Streak(memory, "BT002") = 2

BreachFactor(w, streak) == Min(MaxAttention, (w * (100 + 5 * Min(streak, 5))) \div 100)

\* C23: the streak counts breach days: in one cycle a concept's streak grows by at
\* most 1 and its weight is multiplied by the breach factor 1 + 0.05 min(streak, 5)
\* at most once, however many (rule, element) pairs of the concept are in breach
\* on the date.
C23_StreakCountsDays ==
    Ran("detect_breaches") =>
        \A i \in 1..Len(terms) :
            /\ Streak(memory, terms[i]) <= Streak(mem_at_start, terms[i]) + 1
            /\ pc = "assess_risk" =>
                   attention_read(memory, terms[i])
                       \in {attention_read(mem_at_start, terms[i]),
                            BreachFactor(attention_read(mem_at_start, terms[i]),
                                         Streak(mem_at_start, terms[i]) + 1)}

(***************************************************************************)
(* Properties of the oracle client.                                        *)
(***************************************************************************)
Applying(op) == lastCall.op = op

\* C24: one request to the oracle makes at most two attempts, the second only
\* after the first failed; the response of the first attempt that succeeds is
\* returned, and the request raises exactly when both attempts failed, whatever
\* a further attempt would have done.
C24_AtMostTwoAttempts ==
    Applying("_call") =>
        LET attempts == lastCall.args.attempts
            r == lastCall.ret
        IN  /\ r.made \in {1, 2}
            /\ r.made = 2 <=> ~attempts[1].ok
            /\ attempts[1].ok => ~r.raised /\ r.ret = attempts[1]
            /\ ~attempts[1].ok /\ attempts[2].ok => ~r.raised /\ r.ret = attempts[2]
            /\ r.raised <=> ~attempts[1].ok /\ ~attempts[2].ok

\* The first attempt failed and the second one replied: its text is returned
C24_Witness ==
    /\ Applying("_call")
    /\ lastCall.args.attempts = <<Failure, NarrativeReply, Failure>>
    /\ lastCall.ret = [raised |-> FALSE, ret |-> NarrativeReply, made |-> 2]

\* The capabilities' results for a model are the fallbacks
Fallbacks(analysis) ==
    /\ \A i \in 1..Len(analysis.semantic_types) : analysis.semantic_types[i][2] = "text"
    /\ analysis.llm_risks = <<>>
    /\ generate_explanation(EmptyDict, "sql_analysis_completed", analysis.model_name,
                            Outage.explanation).ret
           = Template("sql_analysis_completed", analysis.model_name)

\* The step the cycle is at can be taken and does not raise: a step is enabled by
\* its place in the cycle alone, AnalyzeSql and CheckPolicies have an order to
\* iterate in, and SelectFocus has a concept to select
CanStep ==
    /\ pc = "select_focus" => local.term_risks # <<>>
    /\ pc = "analyze_sql" => AnalysisChoicesUnder(local.lineage_info, {Outage}) # {}
    /\ pc = "check_policies" => IterationChoices(local.analysis_results) # {}

\* C25: when every attempt of every request to the oracle fails, no step of a cycle
\* of a store with at least one concept raises or stops the cycle: the steps
\* taken are the first of the ten in order, the next one can be taken, and the
\* cycle returns only after all ten, having appended recommendation_created and
\* learning_updated; for every model analysed the semantic types are all text,
\* the risk list is empty and the narrative is the template.
C25_OutageCycleCompletes ==
    terms # <<>> =>
        /\ result.status \in {"none", "ok"}
        /\ \A i \in 1..Len(steps) : steps[i] = StepOrder[i]
        /\ pc # "idle" => pc = StepOrder[Len(steps) + 1] /\ CanStep
        /\ pc = "idle" /\ day >= 1 =>
               /\ Completed
               /\ result.day = day
               /\ steps = StepOrder
               /\ CountOf("recommendation_created") = 1
               /\ CountOf("learning_updated") = 1
        /\ \A i \in 1..Len(local.analysis_results) : Fallbacks(local.analysis_results[i])
        /\ \A k \in DOMAIN cache :
               k[1] = "semtype" => \A i \in 1..Len(cache[k]) : cache[k][i][2] = "text"
        /\ \A k \in DOMAIN cache : k[1] = "risks" => cache[k] = <<>>

\* A cycle has run to its end during the outage, having analysed a model
C25_Witness ==
    /\ Completed
    /\ day = 1
    /\ Len(local.analysis_results) >= 1
    /\ Fallbacks(local.analysis_results[1])
    /\ CountOf("sql_analysis_completed") >= 1

(***************************************************************************)
(* Properties of a cycle whose focus misses a part of its lineage.         *)
(***************************************************************************)
Focus == local.focus_term.term_id
MappedModels(term_id) ==
    {r.model_name : r \in {x \in SeqToSet(DBT_COLUMN_MAPPING) : x.tde_id \in ElementsOf(term_id)}}
NoElements(term_id) == ElementsOf(term_id) = {}
NoMapping(term_id) == MappedModels(term_id) = {}
WithoutSql(term_id) == {n \in MappedModels(term_id) : n \notin DOMAIN DBT_SQL_MODELS}
Analysed == {local.analysis_results[i].model_name : i \in 1..Len(local.analysis_results)}

\* The cycle has not raised, its three investigating steps have nothing to show,
\* and at its end it has appended the three events, the recommendation being
\* adjust_threshold
EmptyInvestigation(lineage_too) ==
    /\ result.status \in {"none", "ok"}
    /\ lineage_too /\ Ran("trace_lineage") => local.lineage_info.models = <<>>
    /\ Ran("analyze_sql") => local.analysis_results = <<>> /\ CountOf("sql_analysis_completed") = 0
    /\ Ran("check_policies") => local.gaps = <<>> /\ CountOf("policy_gap_detected") = 0
    /\ pc = "idle" =>
           /\ Completed
           /\ steps = StepOrder
           /\ CountOf("lineage_traced") = 1
           /\ CountOf("recommendation_created") = 1
           /\ local.rec = Recommendation("adjust_threshold", "n/a", "n/a")
           /\ result.recommendation = "adjust_threshold"
           /\ CountOf("learning_updated") = 1

\* C26 as stated: when the focus concept has no elements, or its elements have no
\* pipeline mapping, or one of its mapped models has no SQL body, the cycle does
\* not abort, TraceLineage, AnalyzeSql and CheckPolicies produce empty results, and
\* the cycle appends lineage_traced, recommendation_created of type
\* adjust_threshold and learning_updated.
C26_MissingLineageAsStated ==
    Ran("select_focus") /\ (NoElements(Focus) \/ NoMapping(Focus) \/ WithoutSql(Focus) # {})
        => EmptyInvestigation(TRUE)

\* C26: when none of the models mapped to the focus concept's elements has a SQL
\* body (there is no element, or no mapping, or no body for any mapped model),
\* the cycle does not abort, AnalyzeSql and CheckPolicies produce empty results
\* (and TraceLineage no model, when nothing is mapped), and the cycle appends
\* lineage_traced, recommendation_created of type adjust_threshold and
\* learning_updated; a mapped model without a SQL body is never analysed, and a
\* cycle with such a model does not abort either.
C26_MissingLineage ==
    Ran("select_focus") =>
        /\ result.status \in {"none", "ok"}
        /\ Analysed \cap WithoutSql(Focus) = {}
        /\ Ran("trace_lineage") =>
               SeqToSet(local.lineage_info.models) = MappedModels(Focus)
        /\ MappedModels(Focus) = WithoutSql(Focus) => EmptyInvestigation(NoMapping(Focus))

\* A cycle whose focus has one mapped model, without a SQL body, has run to its end
C26_Witness ==
    /\ Completed
    /\ Focus = "BT006"
    /\ local.lineage_info.models = <<"stg_payments">>
    /\ local.analysis_results = <<>>
    /\ local.rec.type = "adjust_threshold"

(***************************************************************************)
(* Properties of the outcome measurement.                                  *)
(***************************************************************************)
\* The recommendation_created rows for the concept that the log held when the cycle
\* began, and the cycle's outcome records
EarlierRecs(term_id) ==
    SelectSeq(SubSeq(Log, 1, cycle_start),
              LAMBDA r : r.event_type = "recommendation_created" /\ r.entity_id = term_id)
LastRec(term_id) == EarlierRecs(term_id)[Len(EarlierRecs(term_id))]
NewOutcomes == SubSeq(memory.outcomes, Len(mem_at_start.outcomes) + 1, Len(memory.outcomes))
Measured == SelectSeq(CycleEvents, LAMBDA r : r.event_type = "outcome_measured")
FocusOn(date) ==
    {r.entity_id : r \in {x \in SeqToSet(Log) :
                              x.event_type = "focus_selected" /\ x.context.date = date}}

RecommendationFor(choice, iterations) ==
    LET analysis == _step_analyze_sql(db, cache, local.focus_term, local.lineage_info, day,
                                      choice)
        gaps == _step_check_policies(analysis.db, analysis.ret, day, iterations)
    IN  _step_create_recommendation(gaps.db, memory, prev, local.focus_term, gaps.ret,
                                    analysis.ret, day,
                                    primary_score(scores, local.focus_term, day)).ret

IterationsAfter(choice) ==
    IterationChoices(_step_analyze_sql(db, cache, local.focus_term, local.lineage_info, day,
                                       choice).ret)

\* C28: from the same store, memory, date and oracle responses the cycle makes the
\* same recommendation (type, target column, validation) for its focus concept,
\* whatever the order of the column list made from a set and the iteration order
\* of the set of observed patterns.
C28_CycleIsDeterministic ==
    pc = "analyze_sql" =>
        \A c1, c2 \in AnalysisChoices(local.lineage_info) :
            c1.responses = c2.responses =>
                \A i1 \in IterationsAfter(c1), i2 \in IterationsAfter(c2) :
                    RecommendationFor(c1, i1) = RecommendationFor(c2, i2)

(***************************************************************************)
(* Properties of the decay and of the measured outcome.                    *)
(***************************************************************************)
NoBreachCall == lastCall'.op = "record_no_breach" /\ nCalls' = nCalls + 1
Before(t) == attention_read(memory, t)
After(t) == attention_read(memory', t)

\* C29 as stated: record_no_breach(c) sets the streak of c to 0 and never increases
\* the attention of c, also when an improved outcome has brought it below 1.0.
C29_NoBreachNeverIncreases ==
    [][ NoBreachCall =>
          /\ Streak(memory', lastCall'.term_id) = 0
          /\ After(lastCall'.term_id) <= Before(lastCall'.term_id) ]_vars

\* C29: record_no_breach(c) sets the streak of c to 0 and the attention of c to
\* max(1.0, 0.90 w): it does not increase an attention w of 1.0 or more, and it
\* raises an attention that an improved outcome has brought below 1.0 to exactly
\* 1.0; it leaves the attention of every other concept as it was.
C29_NoBreachDecaysToBaseline ==
    [][ NoBreachCall =>
          LET c == lastCall'.term_id
          IN  /\ Streak(memory', c) = 0
              /\ After(c) = Max(AttUnit, (Before(c) * 90) \div 100)
              /\ Before(c) >= AttUnit => After(c) <= Before(c)
              /\ Before(c) > AttUnit => After(c) < Before(c)
              /\ Before(c) < AttUnit => After(c) = AttUnit
              /\ \A t \in MemTerms \ {c} : After(t) = Before(t) ]_vars

\* record_no_breach as the fourth call, after a breach and a measured improvement
\* of the same concept had left its weight at 1.05 x 0.85 and its streak at 1
C29_Witness ==
    /\ lastCall.op = "record_no_breach"
    /\ nCalls = 4
    /\ opsCalled = {"record_breach", "record_recommendation", "record_outcome",
                    "record_no_breach"}
    /\ Len(memory.outcomes) = 1
    /\ memory.outcomes[1].term_id = lastCall.term_id
    /\ improved(memory.outcomes[1])
    /\ Streak(memory, lastCall.term_id) = 0
    /\ Weight(lastCall.term_id) = AttUnit

OutcomeCall ==
    /\ lastCall'.op = "record_outcome"
    /\ nCalls' = nCalls + 1
    /\ <<lastCall'.term_id, lastCall'.rtype>> \in DOMAIN memory.pending

\* C30: record_outcome with a matching pending entry appends delta = score_after -
\* stored score to the deltas of the type and one record to the outcome history,
\* removes the pending entry and no other, sets the attention of the concept to
\* max(0.6, 0.85 w) when delta > 0.001 and to min(2.5, 1.10 w) otherwise, a delta
\* of exactly 0.001 counting as no improvement, and leaves the attention of every
\* other concept as it was.
C30_OutcomeMovesAttention ==
    [][ OutcomeCall =>
          LET c == lastCall'.term_id
              ty == lastCall'.rtype
              stored == memory.pending[<<c, ty>>][2]
              d == lastCall'.score - stored
              w == Before(c)
          IN  /\ memory'.rec_deltas[ty] = Append(Get(memory.rec_deltas, ty, <<>>), d)
              /\ \A t \in DOMAIN memory.rec_deltas \ {ty} :
                     memory'.rec_deltas[t] = memory.rec_deltas[t]
              /\ memory'.outcomes =
                     Append(memory.outcomes, OutcomeRecord(0, c, ty, stored, lastCall'.score))
              /\ memory'.pending = Pop(memory.pending, <<c, ty>>)
              /\ After(c) = IF d > ImprovedEps THEN Max(MinAttention, (w * 85) \div 100)
                            ELSE Min(MaxAttention, (w * 110) \div 100)
              /\ \A t \in MemTerms \ {c} : After(t) = Before(t) ]_vars

RecommendationCall ==
    /\ lastCall'.op = "record_recommendation"
    /\ nCalls' = nCalls + 1

\* C31: the pending store holds one entry per (concept, type): record_recommendation
\* puts the score under its key, in place of an entry already there, and leaves
\* every other entry, those of the same concept with other types included, as it
\* was; every pending entry therefore holds the score of the latest recommendation
\* for its key; record_outcome measures against that score, removes the entry and
\* leaves the other entries as they were.
C31_PendingIsOneSlot ==
    /\ [](\A key \in DOMAIN memory.pending :
             key \in DOMAIN recs /\ memory.pending[key][2] = recs[key][2])
    /\ [][ RecommendationCall =>
             LET key == <<lastCall'.term_id, lastCall'.rtype>>
             IN  /\ DOMAIN memory'.pending = DOMAIN memory.pending \cup {key}
                 /\ memory'.pending[key][2] = lastCall'.score
                 /\ \A k \in DOMAIN memory.pending \ {key} :
                        memory'.pending[k] = memory.pending[k] ]_vars
    /\ [][ OutcomeCall =>
             LET key == <<lastCall'.term_id, lastCall'.rtype>>
             IN  /\ lastCall'.ret # <<>>
                 /\ lastCall'.ret[1].score_before = recs[key][2]
                 /\ DOMAIN memory'.pending = DOMAIN memory.pending \ {key}
                 /\ \A k \in DOMAIN memory'.pending :
                        memory'.pending[k] = memory.pending[k] ]_vars

\* An outcome has just been measured for a key that was recommended twice, against
\* the score of the second recommendation, while an entry of the same concept with
\* another type is still pending.
C31_Witness ==
    /\ lastCall.op = "record_outcome"
    /\ lastCall.ret # <<>>
    /\ recs[LastKey][1] = 2
    /\ lastCall.ret[1].score_before = 900
    /\ LastKey \notin DOMAIN memory.pending
    /\ \E ty \in RecTypeSet \ {lastCall.rtype} :
           /\ <<lastCall.term_id, ty>> \in DOMAIN memory.pending
           /\ memory.pending[<<lastCall.term_id, ty>>][2] = 800

(***************************************************************************)
(* The agent's own slot for the previous recommendation.                   *)
(***************************************************************************)
\* The steps between the measurement and the next recommendation of a cycle
Investigating ==
    pc \in {"start_investigation", "trace_lineage", "analyze_sql", "check_policies",
            "create_recommendation"}
NewMeasured == SelectSeq(NewRows, LAMBDA r : r.event_type = "outcome_measured")

\* C32: the agent's slot of a concept and the memory agree: outside the steps
\* between a cycle's measurement and its recommendation, the memory holds a pending
\* entry for the concept and the type of the slot, with the slot's score; a step
\* appends an outcome_measured event if and only if it appends an OutcomeRecord,
\* one of each at most, and the event has the concept, the type, the score before
\* and the score after of the record.
C32_PrevAgreesWithMemory ==
    /\ [](\A t \in DOMAIN prev :
             \/ Investigating /\ t = local.focus_term.term_id
             \/ /\ <<t, prev[t].recommendation_type>> \in DOMAIN memory.pending
                /\ memory.pending[<<t, prev[t].recommendation_type>>][2] = prev[t].score)
    /\ [][ /\ NewMeasured # <<>> <=> memory'.outcomes # memory.outcomes
           /\ NewMeasured # <<>> =>
                  LET rec == memory'.outcomes[Len(memory'.outcomes)]
                      row == NewMeasured[1]
                  IN  /\ Len(NewMeasured) = 1
                      /\ memory'.outcomes = Append(memory.outcomes, rec)
                      /\ row.entity_id = rec.term_id
                      /\ row.context.recommendation_type = rec.recommendation_type
                      /\ row.context.score_before = rec.score_before
                      /\ row.context.score_after = rec.score_after ]_vars

\* The second cycle has just measured the recommendation of the first: one event
\* and one record, both with the score of the first day and the score of the
\* second, which differ.
C32_Witness ==
    /\ pc = "start_investigation"
    /\ day = 2
    /\ Len(Measured) = 1
    /\ Len(NewOutcomes) = 1
    /\ Measured[1].context.score_before = NewOutcomes[1].score_before
    /\ Measured[1].context.score_after = NewOutcomes[1].score_after
    /\ NewOutcomes[1].score_before # NewOutcomes[1].score_after
    /\ Focus \in DOMAIN prev
    /\ <<Focus, prev[Focus].recommendation_type>> \notin DOMAIN memory.pending

(***************************************************************************)
(* The score a recommendation is stored with.                              *)
(***************************************************************************)
\* The scores the store holds for the first element of the concept, up to today
Observed(term_id) ==
    IF _tdes_for_term(term_id) = <<>> THEN {}
    ELSE {_score(scores, _tdes_for_term(term_id)[1].tde_id, d) : d \in 1..day} \ {NoScore}

\* C33: the score create_recommendation stores with the pending entry is the score
\* the store holds for the first element of the focus concept on the cycle's date,
\* which is there; and the score_before of every OutcomeRecord is a score the store
\* holds for the first element of the record's concept.
C33_PendingScoreIsObserved ==
    /\ [][ pc = "create_recommendation" =>
             LET tdes == _tdes_for_term(Focus)
                 key == <<Focus, local'.rec.type>>
             IN  /\ tdes # <<>>
                 /\ _score(scores, tdes[1].tde_id, day) # NoScore
                 /\ memory'.pending[key][2] = _score(scores, tdes[1].tde_id, day) ]_vars
    /\ [](\A i \in 1..Len(memory.outcomes) :
             memory.outcomes[i].score_before \in Observed(memory.outcomes[i].term_id))

(***************************************************************************)
(* The accessor of the attention weights.                                  *)
(***************************************************************************)
\* C34: get_attention_weight(c) returns the weight of c, 1.0 for a concept the
\* memory has not updated, and leaves the memory as it was, so that summary()
\* reports the same after the call as before it.
C34_AccessorIsReadOnly ==
    [][ lastCall'.op = "get_attention_weight" /\ nCalls' = nCalls + 1 =>
          /\ lastCall'.ret = <<Weight(lastCall'.term_id)>>
          /\ lastCall'.term_id \notin DOMAIN memory.attention_weights
                 => lastCall'.ret = <<AttUnit>>
          /\ memory' = memory
          /\ summary(memory') = summary(memory) ]_vars

(***************************************************************************)
(* The cache of the oracle's responses.                                    *)
(***************************************************************************)
\* C35: a capability called with an input whose key the cache does not hold asks
\* the oracle, with at most two attempts, and stores what it returns, the fallback
\* after a failure included; called with an input whose key the cache holds it
\* returns the stored value and does not ask; and a stored value is never replaced
\* or dropped.  So the oracle is asked for an input at most once in a run, and
\* every later call with that input returns what the first one returned.
C35_CacheMemoizes ==
    [][ nCalls' = nCalls + 1 =>
          LET key == lastCall'.key
          IN  /\ key \notin DOMAIN cache =>
                     /\ lastCall'.asked
                     /\ lastCall'.made \in 1..2
                     /\ cache' = Put(cache, key, lastCall'.ret)
              /\ key \in DOMAIN cache =>
                     /\ ~lastCall'.asked
                     /\ lastCall'.made = 0
                     /\ lastCall'.ret = cache[key]
                     /\ cache' = cache
              /\ \A k \in DOMAIN cache : k \in DOMAIN cache' /\ cache'[k] = cache[k] ]_vars

\* The third call has the input of the first, which had failed twice and returned
\* the template: it returns the template again and does not ask.
C35_Witness ==
    /\ nCalls = 3
    /\ lastCall.op = "generate_explanation"
    /\ ~lastCall.asked
    /\ lastCall.ret = Template("sql_analysis_completed", "fct_revenue")
    /\ lastCall.key = <<"explain", "sql_analysis_completed", "fct_revenue">>
    /\ Cardinality(DOMAIN cache) = 2

(***************************************************************************)
(* C36                                                                     *)
(***************************************************************************)
AssessedRisk(i) == local.term_risks[i].risk
InBreach(term_id) == BreachesOf(term_id) # <<>>

\* C36: in every cycle a concept without a breach on the cycle's date has the
\* adjusted risk exactly 0 and a concept with at least one breach has an adjusted
\* risk strictly above 0, so that, whenever a concept is in breach on that date, the
\* concept selected as the focus is one that has a breach on that date.
C36_BreachesDetermineRisk ==
    /\ (Ran("assess_risk") /\ pc # "idle") =>
           \A i \in 1..Len(local.term_risks) :
              AssessedRisk(i) >= 0
                  /\ (AssessedRisk(i) > 0 <=> InBreach(local.term_risks[i].term.term_id))
    /\ (Ran("select_focus") /\ pc # "idle" /\ local.all_breaches # <<>>) =>
           InBreach(local.focus_term.term_id)

(***************************************************************************)
(* C37                                                                     *)
(***************************************************************************)
\* The step that is taken creates a recommendation of the type move_earlier
CreatesMoveEarlier == pc = "create_recommendation" /\ local'.rec.type = "move_earlier"
MovedEarlierBefore ==
    \E i \in 1..Len(Log) :
       /\ Log[i].event_type = "recommendation_created"
       /\ Log[i].context.recommendation_type = "move_earlier"
DeltasOf(recommendation_type) == Get(memory.rec_deltas, recommendation_type, <<>>)

\* C37: over any sequence of cycles a recommendation of the type move_earlier is
\* created only when the memory's mean delta of move_earlier is strictly above the
\* one of add_validation and at least the one of adjust_threshold; the first
\* move_earlier recommendation of a run is created only after outcomes of
\* add_validation have been recorded whose mean delta is strictly negative.
C37_MoveEarlierNeedsEvidence ==
    [][ CreatesMoveEarlier =>
          /\ FracLess(get_effectiveness(memory, "add_validation"),
                      get_effectiveness(memory, "move_earlier"))
          /\ ~FracLess(get_effectiveness(memory, "move_earlier"),
                       get_effectiveness(memory, "adjust_threshold"))
          /\ ~MovedEarlierBefore =>
                 /\ DeltasOf("move_earlier") = <<>>
                 /\ DeltasOf("add_validation") # <<>>
                 /\ SumSeq(DeltasOf("add_validation")) < 0 ]_vars

\* The second cycle has recommended to move a validation earlier, after it measured
\* a loss for the add_validation of the first.
C37_Witness ==
    /\ pc = "update_learning"
    /\ day = 2
    /\ local.rec.type = "move_earlier"
    /\ Len(DeltasOf("add_validation")) = 1
    /\ DeltasOf("add_validation")[1] < 0
    /\ MovedEarlierBefore

(***************************************************************************)
(* C38                                                                     *)
(***************************************************************************)
\* The deltas of the records of a type, in the order of the outcome history
RecordedDeltas(m, recommendation_type) ==
    LET records == SelectSeq(m.outcomes,
                             LAMBDA r : r.recommendation_type = recommendation_type)
    IN  [i \in 1..Len(records) |-> delta(records[i])]
StoredDeltas(m) ==
    SumSeq([i \in 1..Len(RecTypes) |-> Len(Get(m.rec_deltas, RecTypes[i], <<>>))])
OtherCall ==
    /\ lastCall'.op \in {"record_breach", "record_no_breach", "record_recommendation"}
    /\ nCalls' = nCalls + 1

\* C38: in every reachable memory state the outcome history has as many records as
\* there are deltas stored over all recommendation types, the delta of each record
\* is in the list of its own type (the list of a type holds the deltas of the
\* records of that type, in their order), the effectiveness of a type is the mean of
\* that list and 0.0 for a type without a recorded outcome; record_breach,
\* record_no_breach and record_recommendation change neither the effectiveness of
\* any type nor the outcome history.
C38_DeltasMatchOutcomes ==
    /\ [](/\ Len(memory.outcomes) = StoredDeltas(memory)
          /\ DOMAIN memory.rec_deltas \subseteq RecTypeSet
          /\ \A ty \in RecTypeSet :
                /\ DeltasOf(ty) = RecordedDeltas(memory, ty)
                /\ get_effectiveness(memory, ty) =
                       IF RecordedDeltas(memory, ty) = <<>> THEN <<0, 1>>
                       ELSE <<SumSeq(RecordedDeltas(memory, ty)),
                              Len(RecordedDeltas(memory, ty))>>)
    /\ [][ OtherCall =>
              /\ memory'.outcomes = memory.outcomes
              /\ \A ty \in RecTypeSet :
                     get_effectiveness(memory', ty) = get_effectiveness(memory, ty) ]_vars

\* Two outcomes of one type, a gain of 0.100 and a gain of 0.001, and no outcome of
\* the other types: the first type has the mean 0.101 / 2, the others 0.0.
C38_Witness ==
    /\ lastCall.op = "record_outcome"
    /\ Len(memory.outcomes) = 2
    /\ DeltasOf("add_validation") = <<100, 1>>
    /\ get_effectiveness(memory, "add_validation") = <<101, 2>>
    /\ get_effectiveness(memory, "move_earlier") = <<0, 1>>

(***************************************************************************)
(* C39                                                                     *)
(***************************************************************************)
\* The lower-cased types the map of the call gives to a column
TypesOf(column_name) ==
    {Lower(lastCall.args.column_semantic_map[i][2]) :
        i \in {j \in 1..Len(lastCall.args.column_semantic_map) :
                 lastCall.args.column_semantic_map[j][1] = column_name}}
FromFinding(g) == g.forbidden_found # "plain_select"
Forbidden(sem_type, obs_pattern) ==
    /\ sem_type \in DOMAIN load_ontology
    /\ _SCANNER_TO_ONTOLOGY(obs_pattern) \in load_ontology[sem_type].forbidden_transformations

====
